---- MODULE Spec2Model ----
(***************************************************************************)
(* Model of the HFT request server: the LockFreeQueue hand-off queue, the  *)
(* epoll multiplexer loop, the worker pool, start()/stop(), and the        *)
(* interceptor/service pipeline (processRequest) with its built-in         *)
(* interceptors and services.                                              *)
(***************************************************************************)
EXTENDS Integers, Sequences, FiniteSets, TLC

\* ------------------------------------------------------------------ bounds
\* LockFreeQueue pool size (requestQueue(50000) in the program), scaled down.
PoolSize == 3
\* Worker pool size (HFT_THREAD_POOL_SIZE, 16 in the program), scaled down.
NumWorkers == 2
\* Number of client connections that may be made.
NumConns == 1
\* Number of connections of the clients that connect together and hang up.
MaxConns == 2
\* Number of requests those clients send.
ConnItems == 1
\* Number of requests the clients send in all (queue runs / lifecycle runs).
MaxItems == 4
LifeItems == 2
\* Saturation point of the delivery / send counters (history variables).
MaxCount == 2
\* Largest absolute value of an operand of a calculator request.
MaxOperand == 4

\* Number of stop() calls the caller makes.
MaxStops == 2
\* Threads calling getInstance(), and calls per thread.
NumCallers == 3
MaxCalls == 2
\* Number of interceptors that may be registered.
MaxInterceptors == 3
\* Largest rate limit a RateLimitingInterceptor is constructed with.
MaxK == 2
\* Request-processing threads that share one rate limiter, and calls per thread.
NumRateThreads == 2
MaxRateCalls == 2
\* Clock ticks the rate limiter is exercised for beyond one full window.
ExtraTicks == 4

NULL == 0
Nodes == 1..PoolSize
Workers == 1..NumWorkers
Conns == 1..MaxConns
MaxUnread == 2
RoundTrips == 2
LongItems == 2

\* File descriptors: -1 is "no descriptor" as in the program.
NoFd == 0 - 1
\* awaiting[c] of a client that is no SocketClient: it never calls recv().
NotReading == 0 - 1
ListenFd == 100
EpollFd == 101

VARIABLES
    \* ---- LockFreeQueue<std::pair<int,std::string>> requestQueue
    head, tail, pool_index, node_data, node_next,
    \* ---- HFTServer fields
    running, serverSocket, epollFd, workerThreads,
    \* ---- multiplexer thread (the thread inside start()/acceptConnections())
    mpc, events, m_item, m_node, m_old_tail, spawned,
    \* ---- worker threads
    wpc, old_head, new_head, request, response,
    \* ---- the thread calling stop()
    spc, joinIdx, stopsDone,
    \* ---- clients and the kernel's socket state
    cstate, inbuf, ready, nsent, workload, budget, peer, reg, fdnum, outbuf, awaiting, hpc,
    \* ---- observation (history) variables
    accepted, delivered, sent, sentOn, closes, joins, enqAtFull,
    \* ---- the registered pipeline and what it works on
    serverKind, interceptors, services, nextId, serving, lifecycle,
    limiter, files, now,
    \* ---- the last processRequest call and the last direct preProcess call
    p_req, p_out, rc_ret, w_start, w_calls,
    \* ---- the singleton: static instance, static mutex, the threads in getInstance()
    instance, mutex, gpc, ncalls, got, constructed,
    \* ---- the threads inside RateLimitingInterceptor::preProcess
    rpc, rloc, rcalls, raccepted

qvars == <<head, tail, pool_index, node_data, node_next>>
svars == <<running, serverSocket, epollFd, workerThreads>>
mvars == <<mpc, events, m_item, m_node, m_old_tail, spawned>>
wvars == <<wpc, old_head, new_head, request, response>>
stvars == <<spc, joinIdx, stopsDone>>
cvars == <<cstate, inbuf, ready, nsent, workload, budget, peer, reg, fdnum, outbuf, awaiting, hpc>>
hvars == <<accepted, delivered, sent, sentOn, closes, joins, enqAtFull>>
regvars == <<serverKind, interceptors, services, nextId, serving, lifecycle>>
envvars == <<limiter, files, now>>
obsvars == <<p_req, p_out, rc_ret, w_start, w_calls>>
concvars == <<qvars, svars, mvars, wvars, stvars, cvars, hvars>>
instvars == <<instance, mutex, gpc, ncalls, got, constructed>>
ratevars == <<rpc, rloc, rcalls, raccepted>>
pipevars == <<regvars, envvars, obsvars, instvars, ratevars>>
vars == <<concvars, pipevars>>

\* ------------------------------------------------------------------ strings
\* std::string is modelled as a sequence of one-character strings; positions
\* are 0-based as in the program.
NPOS == 0 - 1

S_TOKEN == <<"T","O","K","E","N",":">>
S_ECHO == <<"E","C","H","O">>
S_CAL == <<"C","A","L">>
S_READ == <<"R","E","A","D">>
S_WRITE == <<"W","R","I","T","E">>
S_ECHO_PREFIX == <<"E","C","H","O",":"," ">>
S_RESULT_PREFIX == <<"R","E","S","U","L","T",":"," ">>
S_ERROR_PREFIX == <<"E","R","R","O","R",":"," ">>
S_FILE_CONTENT_PREFIX == <<"F","I","L","E","_","C","O","N","T","E","N","T",":"," ">>
S_COULD_NOT_OPEN == <<"E","R","R","O","R",":"," ","C","o","u","l","d"," ","n","o","t"," ","o","p","e","n"," ","f","i","l","e"," ">>
S_WRITE_OK == <<"S","U","C","C","E","S","S",":"," ","F","i","l","e"," ","w","r","i","t","t","e","n"," ","s","u","c","c","e","s","s","f","u","l","l","y">>
S_WRITE_FAILED == <<"E","R","R","O","R",":"," ","F","a","i","l","e","d"," ","t","o"," ","w","r","i","t","e"," ","f","i","l","e">>
S_WRITE_FORMAT == <<"E","R","R","O","R",":"," ","I","n","v","a","l","i","d"," ","w","r","i","t","e"," ","c","o","m","m","a","n","d"," ","f","o","r","m","a","t">>
S_DIV_ZERO == <<"D","i","v","i","s","i","o","n"," ","b","y"," ","z","e","r","o">>
S_UNKNOWN_OP == <<"U","n","k","n","o","w","n"," ","o","p","e","r","a","t","o","r",":"," ">>
S_FRAC == <<".","0","0","0","0","0","0">>
ERR_REJECTED == <<"E","R","R","O","R",":"," ","R","e","q","u","e","s","t"," ","r","e","j","e","c","t","e","d"," ","b","y"," ","i","n","t","e","r","c","e","p","t","o","r">>
ERR_NO_SERVICE == <<"E","R","R","O","R",":"," ","N","o"," ","s","e","r","v","i","c","e"," ","a","v","a","i","l","a","b","l","e"," ","t","o"," ","h","a","n","d","l","e"," ","r","e","q","u","e","s","t">>
ERR_EMPTY == <<"E","R","R","O","R",":"," ","E","m","p","t","y"," ","r","e","s","p","o","n","s","e">>
\* The secret the entry points configure: AuthenticationInterceptor("secret123").
ConfiguredToken == <<"s","e","c","r","e","t","1","2","3">>

\* \s of the ECMAScript regex grammar (the characters TLA+ can write).
IsSpace(c) == c \in {" ", "\t", "\n", "\r", "\f"}

\* Whether sub occurs in s at 0-based position p.
MatchAt(s, sub, p) ==
    /\ p >= 0
    /\ p + Len(sub) <= Len(s)
    /\ SubSeq(s, p + 1, p + Len(sub)) = sub

\* std::string::find(sub, pos): the first position >= pos where sub occurs, or npos.
RECURSIVE FindFrom(_, _, _)
FindFrom(s, sub, p) ==
    IF p + Len(sub) > Len(s) THEN NPOS
    ELSE IF MatchAt(s, sub, p) THEN p
    ELSE FindFrom(s, sub, p + 1)

Find(s, sub) == FindFrom(s, sub, 0)

\* The element of the singleton S. The({F(x) : x \in {e}}) is F(e), with e
\* evaluated once however often F uses it.
The(S) == CHOOSE x \in S : TRUE

\* A value returned, or an exception leaving the callee.
Returned(v) == [thrown |-> FALSE, val |-> v]
Thrown == [thrown |-> TRUE, val |-> <<>>]

\* std::string::substr(pos): std::out_of_range when pos > size().
Substr(s, pos) ==
    IF pos > Len(s) THEN Thrown ELSE Returned(SubSeq(s, pos + 1, Len(s)))

\* std::string::substr(pos, n) for pos <= size().
SubstrN(s, pos, n) ==
    LET last == IF pos + n > Len(s) THEN Len(s) ELSE pos + n
    IN  SubSeq(s, pos + 1, last)

\* ------------------------------------------------------------------ services
\* The ECHO branch, rest being what substr did.
EchoOn(rest) ==
    IF rest.thrown THEN Thrown ELSE Returned(S_ECHO_PREFIX \o rest.val)

\* An echo service that keeps the character after the keyword.
EchoService_processRequest_keepingSeparator(req) ==
    IF Find(req, S_ECHO) # NPOS
    THEN The({EchoOn(rest) : rest \in {Substr(req, Find(req, S_ECHO) + 4)}})
    ELSE Returned(<<>>)

\* EchoService::processRequest
EchoService_processRequest(req) ==
    IF Find(req, S_ECHO) # NPOS
    THEN The({EchoOn(rest) : rest \in {Substr(req, Find(req, S_ECHO) + 5)}})
    ELSE Returned(<<>>)

\* ---- std::istringstream extraction, as evaluateExpression uses it.
DigitChars == <<"0", "1", "2", "3", "4", "5", "6", "7", "8", "9">>
IsDigit(c) == \E i \in 1..10 : DigitChars[i] = c
DigitVal(c) == (CHOOSE i \in 1..10 : DigitChars[i] = c) - 1

\* Skip leading whitespace from position p (operator>> with skipws).
RECURSIVE SkipWs(_, _)
SkipWs(s, p) ==
    IF p < Len(s) /\ IsSpace(s[p + 1]) THEN SkipWs(s, p + 1) ELSE p

\* The end of the run of digits starting at p.
RECURSIVE DigitsEnd(_, _)
DigitsEnd(s, p) ==
    IF p < Len(s) /\ IsDigit(s[p + 1]) THEN DigitsEnd(s, p + 1) ELSE p

\* The number the digits s[from+1..to] spell.
RECURSIVE DigitsValue(_, _, _, _)
DigitsValue(s, from, to, acc) ==
    IF from >= to THEN acc
    ELSE DigitsValue(s, from + 1, to, acc * 10 + DigitVal(s[from + 1]))

\* iss >> double: an optional sign and a run of digits. A double is a sign and
\* a magnitude (so that -0.0 is a value). On failure the stream fails and, in
\* C++11, zero is stored.
ExtractDouble(s, p) ==
    LET q == SkipWs(s, p)
        signed == q < Len(s) /\ s[q + 1] \in {"+", "-"}
        d == IF signed THEN q + 1 ELSE q
        e == DigitsEnd(s, d)
    IN  IF e = d
        THEN [ok |-> FALSE, neg |-> FALSE, mag |-> 0, pos |-> q]
        ELSE [ok |-> TRUE, neg |-> signed /\ s[q + 1] = "-",
              mag |-> DigitsValue(s, d, e, 0), pos |-> e]

\* iss >> char
ExtractChar(s, p) ==
    LET q == SkipWs(s, p)
    IN  IF q >= Len(s) THEN [ok |-> FALSE, ch |-> "", pos |-> q]
        ELSE [ok |-> TRUE, ch |-> s[q + 1], pos |-> q + 1]

\* A value of evaluateExpression: the double it returns, or the exception.
Value(neg, mag) == [thrown |-> FALSE, what |-> <<>>, neg |-> neg, mag |-> mag]
Raise(what) == [thrown |-> TRUE, what |-> what, neg |-> FALSE, mag |-> 0]

\* The while loop of evaluateExpression from stream position p; result is the
\* running value. (iss >> op >> result) fails when either extraction fails;
\* a failed extraction of the number stores zero.
RECURSIVE EvalLoop(_, _, _)
\* The switch on op, n being the number extracted after it.
EvalSwitch(s, ch, n) ==
    IF ~n.ok THEN Value(FALSE, 0)
    ELSE IF ch = "+" THEN EvalLoop(s, n.pos, [neg |-> n.neg, mag |-> n.mag])
    ELSE IF ch = "-" THEN EvalLoop(s, n.pos, [neg |-> ~n.neg, mag |-> n.mag])
    ELSE IF ch = "*" THEN EvalLoop(s, n.pos, [neg |-> n.neg, mag |-> n.mag])
    ELSE IF ch = "/" THEN
        IF n.mag = 0 THEN Raise(S_DIV_ZERO)
        ELSE EvalLoop(s, n.pos, [neg |-> n.neg, mag |-> n.mag])
    ELSE Raise(S_UNKNOWN_OP \o <<ch>>)

EvalAfterOp(s, result, c) ==
    IF ~c.ok THEN Value(result.neg, result.mag)
    ELSE EvalSwitch(s, c.ch, ExtractDouble(s, c.pos))

EvalLoop(s, p, result) == EvalAfterOp(s, result, ExtractChar(s, p))

EvalAfterFirst(expression, first) ==
    IF ~first.ok THEN Value(FALSE, 0)
    ELSE EvalLoop(expression, first.pos, [neg |-> first.neg, mag |-> first.mag])

\* CalculatorService::evaluateExpression
evaluateExpression(expression) ==
    EvalAfterFirst(expression, ExtractDouble(expression, 0))

\* The decimal digits of a natural number.
RECURSIVE NatToString(_)
NatToString(n) ==
    IF n < 10 THEN <<DigitChars[n + 1]>>
    ELSE NatToString(n \div 10) \o <<DigitChars[(n % 10) + 1]>>

\* std::to_string(double) of an integral value: "%f".
to_string(neg, mag) ==
    (IF neg THEN <<"-">> ELSE <<>>) \o NatToString(mag) \o S_FRAC

\* The try block of CalculatorService::processRequest, r being what
\* evaluateExpression did.
CalculatorResponse(r) ==
    IF r.thrown THEN Returned(S_ERROR_PREFIX \o r.what)
    ELSE Returned(S_RESULT_PREFIX \o to_string(r.neg, r.mag))

CalculatorOn(expression) ==
    IF expression.thrown THEN Thrown
    ELSE CalculatorResponse(evaluateExpression(expression.val))

\* CalculatorService::processRequest
CalculatorService_processRequest(req) ==
    IF Find(req, S_CAL) # NPOS
    THEN The({CalculatorOn(expression) :
                 expression \in {Substr(req, Find(req, S_CAL) + 4)}})
    ELSE Returned(<<>>)

\* ---- the file system FileService works on: a function from the names of the
\* files that exist to their contents.
FileExists(fs, name) == name \in DOMAIN fs

\* FileService::readFile
readFile(fs, filename) ==
    IF ~FileExists(fs, filename) THEN S_COULD_NOT_OPEN \o filename
    ELSE fs[filename]

\* FileService::writeFile: the file is created or truncated; opening fails for
\* the empty name and whenever the disk refuses (diskOk = FALSE).
writeFile(fs, filename, content, diskOk) ==
    IF filename = <<>> \/ ~diskOk
    THEN [ok |-> FALSE, fs |-> fs]
    ELSE [ok |-> TRUE,
          fs |-> [n \in (DOMAIN fs) \cup {filename} |->
                     IF n = filename THEN content ELSE fs[n]]]

\* The READ branch, filename being what substr did.
FileRead(fs, filename) ==
    IF filename.thrown THEN [thrown |-> TRUE, val |-> <<>>, fs |-> fs]
    ELSE [thrown |-> FALSE,
          val |-> S_FILE_CONTENT_PREFIX \o readFile(fs, filename.val),
          fs |-> fs]

\* The WRITE branch once writeFile has returned w.
FileWritten(w) ==
    [thrown |-> FALSE, val |-> IF w.ok THEN S_WRITE_OK ELSE S_WRITE_FAILED, fs |-> w.fs]

\* The WRITE branch, spacePos being the space that ends the file name.
FileWrite(req, fs, diskOk, writePos, spacePos) ==
    IF spacePos # NPOS
    THEN FileWritten(writeFile(fs,
                               SubstrN(req, writePos + 6, spacePos - (writePos + 6)),
                               Substr(req, spacePos + 1).val,
                               diskOk))
    ELSE [thrown |-> FALSE, val |-> S_WRITE_FORMAT, fs |-> fs]

\* FileService::processRequest; the result carries the file system it leaves.
FileService_processRequest(req, fs, diskOk) ==
    IF Find(req, S_READ) # NPOS
    THEN FileRead(fs, Substr(req, Find(req, S_READ) + 5))
    ELSE IF Find(req, S_WRITE) # NPOS
    THEN FileWrite(req, fs, diskOk, Find(req, S_WRITE),
                   FindFrom(req, <<" ">>, Find(req, S_WRITE) + 6))
    ELSE [thrown |-> FALSE, val |-> <<>>, fs |-> fs]

\* A service result together with the file system it leaves.
WithFiles(r, fs) == [thrown |-> r.thrown, val |-> r.val, fs |-> fs]

\* IService::processRequest, dispatched on the dynamic type of the service.
Service_processRequest(kind, req, fs, diskOk) ==
    IF kind = "echo" THEN WithFiles(EchoService_processRequest(req), fs)
    ELSE IF kind = "calc" THEN WithFiles(CalculatorService_processRequest(req), fs)
    ELSE FileService_processRequest(req, fs, diskOk)

\* ------------------------------------------------------------------ interceptors
\* Priorities in the order of the README's example output: validation,
\* authentication, rate limiting, logging.
getPriority_validationFirst(kind) ==
    IF kind = "valid" THEN 0
    ELSE IF kind = "auth" THEN 1
    ELSE IF kind = "rate" THEN 2
    ELSE 3

\* getPriority() of the four interceptor classes.
getPriority(kind) ==
    IF kind = "auth" THEN 0
    ELSE IF kind = "log" THEN 1
    ELSE IF kind = "rate" THEN 2
    ELSE 3

\* std::regex_search(request, match, "TOKEN:([^\\s]+)"): the leftmost position
\* where "TOKEN:" is followed by at least one non-space character, or npos.
RECURSIVE TokenMatchFrom(_, _)
TokenMatchFrom(req, p) ==
    IF p + Len(S_TOKEN) + 1 > Len(req) THEN NPOS
    ELSE IF MatchAt(req, S_TOKEN, p) /\ ~IsSpace(req[p + Len(S_TOKEN) + 1]) THEN p
    ELSE TokenMatchFrom(req, p + 1)

\* The end of the greedy run [^\s]+ starting at p.
RECURSIVE NonSpaceEnd(_, _)
NonSpaceEnd(s, p) ==
    IF p < Len(s) /\ ~IsSpace(s[p + 1]) THEN NonSpaceEnd(s, p + 1) ELSE p

\* match[1] of the search above.
MatchedToken(req, p) ==
    SubSeq(req, p + Len(S_TOKEN) + 1, NonSpaceEnd(req, p + Len(S_TOKEN)))

\* An authentication that looks for "TOKEN:" followed by the secret anywhere.
AuthenticationInterceptor_preProcess_anywhere(req, validToken) ==
    Find(req, S_TOKEN \o validToken) # NPOS

\* AuthenticationInterceptor::preProcess
AuthenticationInterceptor_preProcess(req, validToken) ==
    LET p == TokenMatchFrom(req, 0)
    IN  /\ p # NPOS
        /\ MatchedToken(req, p) = validToken

\* The clock (steady_clock) counts ticks, TicksPerSecond of them to the second
\* (the resolution the clock is observed at); duration_cast<seconds> truncates.
TicksPerSecond == 2
RateWindowSeconds == 60
\* Last clock reading (in ticks) the rate limiter is exercised at.
MaxNow == RateWindowSeconds * TicksPerSecond + ExtraTicks
ToSeconds(ticks) == ticks \div TicksPerSecond

\* A limiter whose window ends only after more than 60 seconds.
RateLimitingInterceptor_preProcess_lateReset(rl, t) ==
    LET timeSinceReset == ToSeconds(t - rl.lastReset)
        r1 == IF timeSinceReset > RateWindowSeconds
              THEN [rl EXCEPT !.currentRequests = 0, !.lastReset = t]
              ELSE rl
    IN  IF r1.currentRequests >= r1.maxRequests
        THEN [ok |-> FALSE, rl |-> r1]
        ELSE [ok |-> TRUE, rl |-> [r1 EXCEPT !.currentRequests = @ + 1]]

\* A rate limiter that counts the request before it tests the limit.
RateLimitingInterceptor_preProcess_countingFirst(rl, t) ==
    LET timeSinceReset == ToSeconds(t - rl.lastReset)
        r1 == IF timeSinceReset >= RateWindowSeconds
              THEN [rl EXCEPT !.currentRequests = 0, !.lastReset = t]
              ELSE rl
        r2 == [r1 EXCEPT !.currentRequests = @ + 1]
    IN  [ok |-> r2.currentRequests <= r2.maxRequests, rl |-> r2]

\* RateLimitingInterceptor::preProcess on the limiter rl at clock reading t.
RateLimitingInterceptor_preProcess(rl, t) ==
    LET timeSinceReset == ToSeconds(t - rl.lastReset)
        r1 == IF timeSinceReset >= RateWindowSeconds
              THEN [rl EXCEPT !.currentRequests = 0, !.lastReset = t]
              ELSE rl
    IN  IF r1.currentRequests >= r1.maxRequests
        THEN [ok |-> FALSE, rl |-> r1]
        ELSE [ok |-> TRUE, rl |-> [r1 EXCEPT !.currentRequests = @ + 1]]

MaxRequestLength == 1000
ValidCommands == <<S_ECHO, S_CAL, S_READ, S_WRITE>>

\* ValidationInterceptor::preProcess
ValidationInterceptor_preProcess(req) ==
    IF req = <<>> THEN FALSE
    ELSE IF Len(req) > MaxRequestLength THEN FALSE
    ELSE \E i \in 1..Len(ValidCommands) : Find(req, ValidCommands[i]) # NPOS

\* IInterceptor::preProcess, dispatched on the dynamic type. No built-in
\* interceptor rewrites the request.
Interceptor_preProcess(kind, req, rl, t) ==
    IF kind = "auth"
    THEN [ok |-> AuthenticationInterceptor_preProcess(req, ConfiguredToken), rl |-> rl]
    ELSE IF kind = "rate" THEN RateLimitingInterceptor_preProcess(rl, t)
    ELSE IF kind = "valid" THEN [ok |-> ValidationInterceptor_preProcess(req), rl |-> rl]
    ELSE [ok |-> TRUE, rl |-> rl]

\* ValidationInterceptor::postProcess
ValidationInterceptor_postProcess(resp) ==
    IF resp = <<>> THEN ERR_EMPTY ELSE resp

\* IInterceptor::postProcess: only the validation interceptor touches the response.
Interceptor_postProcess(kind, req, resp) ==
    IF kind = "valid" THEN ValidationInterceptor_postProcess(resp) ELSE resp

\* ------------------------------------------------------------------ pipeline
\* log is the sequence of calls processRequest has made so far. An entry names
\* the call (op), its receiver (kind, and id: the interceptor's identity or the
\* service's index), what it returned (ok: preProcess's result, or whether the
\* service's result is non-empty) and the string it returned or left (val).
Call(op, kind, id, ok, val) ==
    [op |-> op, kind |-> kind, id |-> id, ok |-> ok, val |-> val]

\* The pre-processing loop of processRequest from interceptor i on.
RECURSIVE PrePass(_, _, _, _, _, _)
\* r is what interceptor i's preProcess returned.
PreStep(icpts, i, req, t, log, r) ==
    IF ~r.ok
    THEN [rejected |-> TRUE, rl |-> r.rl,
          log |-> Append(log, Call("pre", icpts[i].kind, icpts[i].id, FALSE, <<>>))]
    ELSE PrePass(icpts, i + 1, req, r.rl, t,
                 Append(log, Call("pre", icpts[i].kind, icpts[i].id, TRUE, <<>>)))

PrePass(icpts, i, req, rl, t, log) ==
    IF i > Len(icpts) THEN [rejected |-> FALSE, rl |-> rl, log |-> log]
    ELSE The({PreStep(icpts, i, req, t, log, r) :
                 r \in {Interceptor_preProcess(icpts[i].kind, req, rl, t)}})

\* The service loop of processRequest from service j on.
RECURSIVE Dispatch(_, _, _, _, _, _)
\* A service loop without the break: every service is called, the last result kept.
DispatchStep_withoutBreak(svcs, j, req, diskOk, log, r) ==
    IF r.thrown
    THEN [thrown |-> TRUE, response |-> <<>>, fs |-> r.fs,
          log |-> Append(log, Call("svc", svcs[j], j, FALSE, <<>>))]
    ELSE IF j = Len(svcs)
    THEN [thrown |-> FALSE, response |-> r.val, fs |-> r.fs,
          log |-> Append(log, Call("svc", svcs[j], j, r.val # <<>>, r.val))]
    ELSE Dispatch(svcs, j + 1, req, r.fs, diskOk,
                  Append(log, Call("svc", svcs[j], j, r.val # <<>>, r.val)))

\* r is what service j's processRequest did.
DispatchStep(svcs, j, req, diskOk, log, r) ==
    IF r.thrown
    THEN [thrown |-> TRUE, response |-> <<>>, fs |-> r.fs,
          log |-> Append(log, Call("svc", svcs[j], j, FALSE, <<>>))]
    ELSE IF r.val # <<>>
    THEN [thrown |-> FALSE, response |-> r.val, fs |-> r.fs,
          log |-> Append(log, Call("svc", svcs[j], j, TRUE, r.val))]
    ELSE Dispatch(svcs, j + 1, req, r.fs, diskOk,
                  Append(log, Call("svc", svcs[j], j, FALSE, <<>>)))

Dispatch(svcs, j, req, fs, diskOk, log) ==
    IF j > Len(svcs) THEN [thrown |-> FALSE, response |-> <<>>, fs |-> fs, log |-> log]
    ELSE The({DispatchStep(svcs, j, req, diskOk, log, r) :
                 r \in {Service_processRequest(svcs[j], req, fs, diskOk)}})

\* The post-processing loop of processRequest from interceptor i on.
RECURSIVE PostPass(_, _, _, _, _)
\* A post-processing loop that ends after its first postProcess call.
PostStep_endingLoop(icpts, i, req, resp, log) ==
    [response |-> resp,
     log |-> Append(log, Call("post", icpts[i].kind, icpts[i].id, TRUE, resp))]

\* resp is the response interceptor i's postProcess left.
PostStep(icpts, i, req, resp, log) ==
    PostPass(icpts, i + 1, req, resp,
             Append(log, Call("post", icpts[i].kind, icpts[i].id, TRUE, resp)))

PostPass(icpts, i, req, resp, log) ==
    IF i > Len(icpts) THEN [response |-> resp, log |-> log]
    ELSE PostStep(icpts, i, req,
                  Interceptor_postProcess(icpts[i].kind, req, resp), log)

\* processRequest once the post-processing loop has ended with post.
AfterPostPass(rl, fs, post) ==
    [thrown |-> FALSE, response |-> post.response, rl |-> rl, fs |-> fs, log |-> post.log]

\* processRequest once the service loop has ended with d.
AfterDispatch(icpts, req, rl, d) ==
    IF d.thrown
    THEN [thrown |-> TRUE, response |-> <<>>, rl |-> rl, fs |-> d.fs, log |-> d.log]
    ELSE The({AfterPostPass(rl, d.fs, post) :
                 post \in {PostPass(icpts, 1, req,
                                    IF d.response = <<>> THEN ERR_NO_SERVICE
                                    ELSE d.response,
                                    d.log)}})

\* A pipeline that goes on to the services whatever the pre-processing loop said.
AfterPrePass_ignoringRejection(icpts, svcs, req, fs, diskOk, pre) ==
    The({AfterDispatch(icpts, req, pre.rl, d) :
            d \in {Dispatch(svcs, 1, req, fs, diskOk, pre.log)}})

\* processRequest once the pre-processing loop has ended with pre.
AfterPrePass(icpts, svcs, req, fs, diskOk, pre) ==
    IF pre.rejected
    THEN [thrown |-> FALSE, response |-> ERR_REJECTED,
          rl |-> pre.rl, fs |-> fs, log |-> pre.log]
    ELSE The({AfterDispatch(icpts, req, pre.rl, d) :
                 d \in {Dispatch(svcs, 1, req, fs, diskOk, pre.log)}})

\* HFTServer::processRequest (and the body of SocketServer::processRequest
\* after its sort) on the interceptor list icpts and the service list svcs:
\* the response, or the exception that leaves it, with the limiter and file
\* system it leaves and the calls it made.
processRequest(icpts, svcs, req, rl, fs, t, diskOk) ==
    The({AfterPrePass(icpts, svcs, req, fs, diskOk, pre) :
            pre \in {PrePass(icpts, 1, req, rl, t, <<>>)}})

\* ------------------------------------------------------------------ requests
\* The requests clients send: a token part followed by a command part, and a
\* few of other shapes.
TokenParts == {
    <<"T","O","K","E","N",":","s","e","c","r","e","t","1","2","3"," ">>,
    <<"T","O","K","E","N",":","w","r","o","n","g"," ">>,
    <<>> }
CommandParts == {
    <<"E","C","H","O"," ","H","i">>,
    <<"W","R","I","T","E"," ","f"," ","H","i">>,
    <<"R","E","A","D"," ","f">>,
    <<"U","N","K","N","O","W","N"," ","f","o","o">> }
OtherRequests == {
    <<"T","O","K","E","N",":","s","e","c","r","e","t","1","2","3","4"," ","E","C","H","O"," ","H","i">>,
    <<"T","O","K","E","N",":","b","a","d"," ","T","O","K","E","N",":","s","e","c","r","e","t","1","2","3"," ","E","C","H","O"," ","H","i">>,
    <<"T","O","K","E","N",":","s","e","c","r","e","t","1","2","3"," ","C","A","L"," ","2"," ","+"," ","3">>,
    <<"T","O","K","E","N",":","s","e","c","r","e","t","1","2","3"," ","E","C","H","O"," ","R","E","A","D"," ","f">>,
    <<"T","O","K","E","N",":","s","e","c","r","e","t","1","2","3"," ","E","C","H","O">>,
    <<"T","O","K","E","N",":","s","e","c","r","e","t","1","2","3"," ","C","A","L">>,
    <<"T","O","K","E","N",":","s","e","c","r","e","t","1","2","3"," ","R","E","A","D">>,
    <<"T","O","K","E","N",":","s","e","c","r","e","t","1","2","3"," ","C","A","L"," ","a","b","c">>,
    <<"T","O","K","E","N",":","s","e","c","r","e","t","1","2","3"," ","W","R","I","T","E"," ","f"," ","R","E","A","D"," ","m","e">>,
    <<"T","O","K","E","N",":","s","e","c","r","e","t","1","2","3"," ","U","N","K","N","O","W","N"," ","E","C","H","O"," ","H","i">>,
    <<>> }
Requests == {t \o c : t \in TokenParts, c \in CommandParts} \cup OtherRequests

InterceptorKinds == {"log", "auth", "rate", "valid"}
ServiceKinds == {"echo", "calc", "file"}

\* ------------------------------------------------------------------ registration
Range(f) == {f[i] : i \in DOMAIN f}
Min(a, b) == IF a < b THEN a ELSE b

\* The orders std::sort may leave seq in under the priority comparison: every
\* permutation in ascending priority (the order of equal elements is unspecified).
SortOutcomes(seq) ==
    LET n == Len(seq)
        perms == {f \in [1..n -> 1..n] : \A i, j \in 1..n : i # j => f[i] # f[j]}
        apply(f) == [i \in 1..n |-> seq[f[i]]]
    IN  {apply(f) : f \in {g \in perms :
            \A i \in 1..n - 1 :
                ~(getPriority(seq[g[i + 1]].kind) < getPriority(seq[g[i]].kind))}}

\* lifecycle[k] counts the calls of initialize() and of cleanup() on the
\* service of class k. After addService has registered the services svcs,
\* each of them has had its one initialize() and no cleanup().
Registered(svcs) ==
    [k \in ServiceKinds |->
        [initialize |-> Cardinality({i \in 1..Len(svcs) : svcs[i] = k}),
         cleanup |-> 0]]

\* Each interceptor class is registered at most once.
MayRegister(icpts, kind) ==
    LET count == Cardinality({i \in 1..Len(icpts) : icpts[i].kind = kind})
    IN  /\ Len(icpts) < MaxInterceptors
        /\ count < 1

\* HFTServer::addService / SocketServer::addService:
\* service->initialize(); services.push_back(std::move(service))
addService(kind) ==
    /\ ~serving
    /\ kind \notin Range(services)
    /\ lifecycle' = [lifecycle EXCEPT ![kind].initialize = @ + 1]
    /\ services' = Append(services, kind)
    /\ UNCHANGED <<serverKind, interceptors, nextId, serving, envvars, obsvars, instvars, ratevars, concvars>>

\* HFTServer::addInterceptor (push_back, then std::sort by priority) and
\* SocketServer::addInterceptor (push_back only).
addInterceptor(kind) ==
    /\ ~serving
    /\ MayRegister(interceptors, kind)
    /\ LET pushed == Append(interceptors, [kind |-> kind, id |-> nextId])
       IN  IF serverKind = "hft"
           THEN \E sorted \in SortOutcomes(pushed) : interceptors' = sorted
           ELSE interceptors' = pushed
    /\ nextId' = nextId + 1
    /\ UNCHANGED <<serverKind, services, serving, lifecycle, envvars, obsvars, instvars, ratevars, concvars>>

\* What a processRequest call that ended with out leaves behind.
Outcome(req, out) ==
    /\ limiter' = out.rl
    /\ files' = out.fs
    /\ p_req' = req
    /\ p_out' = [called |-> TRUE, thrown |-> out.thrown,
                 response |-> out.response, log |-> out.log]

\* One request through processRequest: HFTServer::processRequest on the list as
\* registered, SocketServer::processRequest after sorting its list in place.
ProcessBody(req, diskOk) ==
    /\ \E icpts \in (IF serverKind = "hft" THEN {interceptors}
                     ELSE SortOutcomes(interceptors)) :
          /\ interceptors' = icpts
          /\ Outcome(req, processRequest(icpts, services, req, limiter, files, now, diskOk))
    /\ serving' = TRUE
    /\ UNCHANGED <<serverKind, services, nextId, lifecycle, now, rc_ret, w_start, w_calls, instvars, ratevars>>

\* One call of processRequest on the registered pipeline.
ProcessCall(req, diskOk) == ProcessBody(req, diskOk) /\ UNCHANGED concvars

\* The clock advances.
Tick(d) ==
    /\ now + d <= MaxNow
    /\ now' = now + d
    /\ UNCHANGED <<regvars, limiter, files, obsvars, instvars, ratevars, concvars>>

\* RateLimitingInterceptor::preProcess called directly. w_start and w_calls
\* observe the window: it starts at construction and at the first call made
\* 60 seconds or more after its start; w_calls counts the calls made in it.
RatePreProcessCall ==
    LET r == RateLimitingInterceptor_preProcess(limiter, now)
        elapsed == now - w_start >= RateWindowSeconds * TicksPerSecond
    IN  /\ limiter' = r.rl
        /\ rc_ret' = IF r.ok THEN "accept" ELSE "reject"
        /\ w_start' = IF elapsed THEN now ELSE w_start
        /\ w_calls' = IF elapsed THEN 1 ELSE Min(w_calls + 1, MaxK + 2)
        /\ UNCHANGED <<regvars, files, now, p_req, p_out, instvars, ratevars, concvars>>

\* ------------------------------------------------------------------ queue and server
\* A work item: std::pair<int, std::string>. id names the request (its text
\* is workload[id].text); a default-constructed pair has id 0.
NoItem == [fd |-> 0, id |-> 0]
Ids == 1..MaxItems

\* The text of the n-th request the clients of the concurrent runs send: the
\* scripts' echo request, with the right token and with a wrong one in turn.
ClientText(n) ==
    IF n % 2 = 1
    THEN <<"T","O","K","E","N",":","s","e","c","r","e","t","1","2","3"," ","E","C","H","O"," ","H","i">>
    ELSE <<"T","O","K","E","N",":","w","r","o","n","g"," ","E","C","H","O"," ","H","i">>

Bump(f, i) == [f EXCEPT ![i] = Min(@ + 1, MaxCount)]

\* Items accepted by enqueue and not yet returned by any dequeue.
Outstanding == {i \in accepted : delivered[i] = 0}

StartupPcs == {"st_setupEpoll", "st_run", "st_spawn"}
LoopPcs == {"m_check", "m_wait", "m_event", "e_get", "e_data", "e_next", "e_xchg", "e_link"}
AcceptPcs == {"a_check", "a_accept"}

\* ---- clients
\* A client connects: the connection waits in the listen backlog.
ClientConnect(c) ==
    /\ cstate[c] = "new"
    /\ mpc \in StartupPcs \cup LoopPcs \cup AcceptPcs
    /\ serverSocket # NoFd
    /\ cstate' = [cstate EXCEPT ![c] = "pending"]
    /\ UNCHANGED <<inbuf, ready, nsent, workload, budget, peer, reg, fdnum, outbuf, awaiting, hpc>>
    /\ UNCHANGED <<qvars, svars, mvars, wvars, stvars, hvars, pipevars>>

\* A client writes one request on its connection; the socket becomes readable
\* (an edge for the edge-triggered registration).
ClientSend(c) ==
    /\ cstate[c] = "open"
    /\ peer[c] = "up"
    /\ inbuf[c] = <<>>
    /\ nsent < budget
    /\ awaiting[c] \in {NotReading, 0}
    /\ nsent' = nsent + 1
    /\ workload' = Append(workload, [conn |-> c, text |-> ClientText(nsent + 1)])
    /\ inbuf' = [inbuf EXCEPT ![c] = <<nsent + 1>>]
    /\ ready' = [ready EXCEPT ![c] = TRUE]
    /\ awaiting' = IF awaiting[c] = NotReading THEN awaiting
                   ELSE [awaiting EXCEPT ![c] = nsent + 1]
    /\ UNCHANGED <<cstate, budget, peer, reg, fdnum, outbuf, hpc>>
    /\ UNCHANGED <<qvars, svars, mvars, wvars, stvars, hvars, pipevars>>

\* A client writes more than one recv() of HFTServer::handleClient can take:
\* the first HFT_BUFFER_SIZE - 1 bytes and the bytes after them, both in the
\* socket before the server reads (one edge for the edge-triggered
\* registration).
ClientSendLong(c) ==
    /\ cstate[c] = "open"
    /\ peer[c] = "up"
    /\ inbuf[c] = <<>>
    /\ awaiting[c] = NotReading
    /\ nsent + 2 <= budget
    /\ nsent' = nsent + 2
    /\ workload' = workload \o <<[conn |-> c, text |-> ClientText(nsent + 1)],
                                 [conn |-> c, text |-> ClientText(nsent + 2)]>>
    /\ inbuf' = [inbuf EXCEPT ![c] = <<nsent + 1, nsent + 2>>]
    /\ ready' = [ready EXCEPT ![c] = TRUE]
    /\ UNCHANGED <<cstate, budget, peer, reg, fdnum, outbuf, awaiting, hpc>>
    /\ UNCHANGED <<qvars, svars, mvars, wvars, stvars, hvars, pipevars>>

\* SocketClient::sendRequest after its send(): one recv() into a buffer of
\* 1024 bytes, which returns what has arrived so far, at least one response
\* and at most all of them.
ClientReceive(c) ==
    /\ cstate[c] = "open"
    /\ awaiting[c] > 0
    /\ outbuf[c] # <<>>
    /\ \E k \in 1..Len(outbuf[c]) :
           outbuf' = [outbuf EXCEPT ![c] = SubSeq(@, k + 1, Len(@))]
    /\ awaiting' = [awaiting EXCEPT ![c] = 0]
    /\ UNCHANGED <<cstate, inbuf, ready, nsent, workload, budget, peer, reg, fdnum, hpc>>
    /\ UNCHANGED <<qvars, svars, mvars, wvars, stvars, hvars, pipevars>>

\* A client shuts its connection down (how = "fin": the stream ends after the
\* bytes already sent) or resets it (how = "rst"); either makes the socket
\* ready once more.
ClientEnd(c, how) ==
    /\ cstate[c] = "open"
    /\ peer[c] = "up"
    /\ peer' = [peer EXCEPT ![c] = how]
    /\ ready' = [ready EXCEPT ![c] = TRUE]
    /\ UNCHANGED <<cstate, inbuf, nsent, workload, budget, reg, fdnum, outbuf, awaiting, hpc>>
    /\ UNCHANGED <<qvars, svars, mvars, wvars, stvars, hvars, pipevars>>

\* ---- HFTServer::start
\* A start() that sets the running flag before it opens the socket.
Start_open_runningFirst(outcome) ==
    /\ mpc = "m_idle"
    /\ spc = "s_idle"
    /\ stopsDone = 0
    /\ running' = TRUE
    /\ serverSocket' = IF outcome = "socket_fails" THEN NoFd ELSE ListenFd
    /\ mpc' = IF outcome = "ok" THEN "st_setupEpoll" ELSE "m_failed"
    /\ UNCHANGED <<epollFd, workerThreads>>
    /\ UNCHANGED <<events, m_item, m_node, m_old_tail, spawned>>
    /\ UNCHANGED <<qvars, wvars, stvars, cvars, hvars, pipevars>>

\* socket(), bind(), listen(): each may fail, and start() then throws.
Start_open(outcome) ==
    /\ mpc = "m_idle"
    /\ spc = "s_idle"
    /\ stopsDone = 0
    /\ serverSocket' = IF outcome = "socket_fails" THEN NoFd ELSE ListenFd
    /\ mpc' = IF outcome = "ok" THEN "st_setupEpoll" ELSE "m_failed"
    /\ UNCHANGED <<running, epollFd, workerThreads>>
    /\ UNCHANGED <<events, m_item, m_node, m_old_tail, spawned>>
    /\ UNCHANGED <<qvars, wvars, stvars, cvars, hvars, pipevars>>

\* setNonBlocking(serverSocket); setupEpoll(): epoll_create1 or epoll_ctl may fail.
Start_setupEpoll(outcome) ==
    /\ mpc = "st_setupEpoll"
    /\ epollFd' = IF outcome = "create_fails" THEN NoFd ELSE EpollFd
    /\ mpc' = IF outcome = "ok" THEN "st_run" ELSE "m_failed"
    /\ UNCHANGED <<running, serverSocket, workerThreads>>
    /\ UNCHANGED <<events, m_item, m_node, m_old_tail, spawned>>
    /\ UNCHANGED <<qvars, wvars, stvars, cvars, hvars, pipevars>>

\* running = true
Start_run ==
    /\ mpc = "st_run"
    /\ running' = TRUE
    /\ mpc' = "st_spawn"
    /\ UNCHANGED <<serverSocket, epollFd, workerThreads>>
    /\ UNCHANGED <<events, m_item, m_node, m_old_tail, spawned>>
    /\ UNCHANGED <<qvars, wvars, stvars, cvars, hvars, pipevars>>

\* The loop starting the HFT_THREAD_POOL_SIZE worker threads, then
\* acceptConnections() is entered.
Start_spawn ==
    /\ mpc = "st_spawn"
    /\ IF spawned < NumWorkers
       THEN /\ workerThreads' = Append(workerThreads, spawned + 1)
            /\ wpc' = [wpc EXCEPT ![spawned + 1] = "w_check"]
            /\ spawned' = spawned + 1
            /\ mpc' = mpc
       ELSE /\ mpc' = "m_check"
            /\ UNCHANGED <<workerThreads, wpc, spawned>>
    /\ UNCHANGED <<running, serverSocket, epollFd>>
    /\ UNCHANGED <<events, m_item, m_node, m_old_tail>>
    /\ UNCHANGED <<old_head, new_head, request, response>>
    /\ UNCHANGED <<qvars, stvars, cvars, hvars, pipevars>>

\* ---- HFTServer::acceptConnections
\* All orderings of the elements of a finite set.
Orderings(S) ==
    {f \in [1..Cardinality(S) -> S] : \A i, j \in DOMAIN f : i # j => f[i] # f[j]}

\* What epoll reports: the listening socket while a connection is pending
\* (level-triggered), and each registered connection with a new readable edge.
ReadySources ==
    (IF serverSocket # NoFd /\ \E c \in Conns : cstate[c] = "pending"
     THEN {ListenFd} ELSE {})
    \cup {fdnum[c] : c \in {d \in Conns : cstate[d] = "open" /\ reg[d] > 0
                                             /\ ready[d]}}

\* while (running)
M_check ==
    /\ mpc = "m_check"
    /\ mpc' = IF running THEN "m_wait" ELSE "m_returned"
    /\ UNCHANGED <<events, m_item, m_node, m_old_tail, spawned>>
    /\ UNCHANGED <<qvars, svars, wvars, stvars, cvars, hvars, pipevars>>

\* epoll_wait(epollFd, events, HFT_MAX_EVENTS, 1): the ready events in some
\* order, none after the 1 ms timeout, or -1 when epollFd is no descriptor.
M_wait ==
    /\ mpc = "m_wait"
    /\ IF epollFd = NoFd
       THEN /\ events' = <<>>
            /\ ready' = ready
       ELSE /\ events' \in Orderings(ReadySources)
            /\ ready' = [c \in Conns |->
                             ready[c] /\ ~(cstate[c] = "open" /\ reg[c] > 0)]
    /\ mpc' = IF events' = <<>> THEN "m_check" ELSE "m_event"
    /\ UNCHANGED <<m_item, m_node, m_old_tail, spawned>>
    /\ UNCHANGED <<cstate, inbuf, nsent, workload, budget, peer, reg, fdnum, outbuf, awaiting, hpc>>
    /\ UNCHANGED <<qvars, svars, wvars, stvars, hvars, pipevars>>

\* The open connection whose socket has descriptor number fd, 0 when the
\* number names no open client socket.
Owner(fd) ==
    IF \E c \in Conns : cstate[c] = "open" /\ fdnum[c] = fd
    THEN CHOOSE c \in Conns : cstate[c] = "open" /\ fdnum[c] = fd
    ELSE 0

\* The number accept() returns: the lowest descriptor number not in use.
LowestFree ==
    CHOOSE n \in Conns : Owner(n) = 0 /\ \A m \in Conns : m < n => Owner(m) # 0

\* The program point after the event at the head of events has been handled.
AfterEvent == IF Tail(events) = <<>> THEN "m_check" ELSE "m_event"

\* An accept step that leaves a connection it could not register open.
M_accept_leavingOpen(ctlOk) ==
    /\ mpc = "m_event"
    /\ Head(events) = serverSocket
    /\ IF \E c \in Conns : cstate[c] = "pending"
       THEN \E c \in Conns :
               /\ cstate[c] = "pending"
               /\ cstate' = [cstate EXCEPT ![c] = "open"]
               /\ reg' = IF ctlOk /\ epollFd # NoFd
                         THEN [reg EXCEPT ![c] = @ + 1] ELSE reg
               /\ fdnum' = [fdnum EXCEPT ![c] = LowestFree]
       ELSE UNCHANGED <<cstate, reg, fdnum>>
    /\ events' = Tail(events)
    /\ mpc' = AfterEvent
    /\ UNCHANGED <<m_item, m_node, m_old_tail, spawned>>
    /\ UNCHANGED <<inbuf, ready, nsent, workload, budget, peer, outbuf, awaiting, hpc>>
    /\ UNCHANGED <<qvars, svars, wvars, stvars, hvars, pipevars>>

\* events[i].data.fd == serverSocket: accept() one connection and register it
\* (EPOLLIN | EPOLLET); a connection that cannot be registered is closed.
\* reg[c] counts the entries of connection c in the epoll interest list.
M_accept(ctlOk) ==
    /\ mpc = "m_event"
    /\ Head(events) = serverSocket
    /\ IF \E c \in Conns : cstate[c] = "pending"
       THEN \E c \in Conns :
               /\ cstate[c] = "pending"
               /\ IF ctlOk /\ epollFd # NoFd
                  THEN /\ cstate' = [cstate EXCEPT ![c] = "open"]
                       /\ reg' = [reg EXCEPT ![c] = @ + 1]
                  ELSE /\ cstate' = [cstate EXCEPT ![c] = "closed"]
                       /\ reg' = reg
               /\ fdnum' = [fdnum EXCEPT ![c] = LowestFree]
       ELSE UNCHANGED <<cstate, reg, fdnum>>
    /\ events' = Tail(events)
    /\ mpc' = AfterEvent
    /\ UNCHANGED <<m_item, m_node, m_old_tail, spawned>>
    /\ UNCHANGED <<inbuf, ready, nsent, workload, budget, peer, outbuf, awaiting, hpc>>
    /\ UNCHANGED <<qvars, svars, wvars, stvars, hvars, pipevars>>

\* What recv(clientSocket, ..., MSG_DONTWAIT) returns for connection fd: -1
\* with an error for a descriptor that is not open or a connection the peer
\* has reset, the bytes waiting, 0 at the end of the stream, -1 with
\* EAGAIN when nothing is waiting.
RecvOutcome(fd) ==
    IF Owner(fd) = 0 THEN "error"
    ELSE IF peer[Owner(fd)] = "rst" THEN "error"
    ELSE IF inbuf[Owner(fd)] # <<>> THEN "bytes"
    ELSE IF peer[Owner(fd)] = "fin" THEN "eof"
    ELSE "would_block"

\* HFTServer::handleClient(fd) up to the call of enqueue: one recv(). With
\* bytes read the pair (clientSocket, request) is built and enqueue begins;
\* with 0 bytes the connection is removed from the epoll set and closed; a
\* recv that returns -1, for whatever reason, does nothing.
M_handleClient ==
    /\ mpc = "m_event"
    /\ Head(events) # serverSocket
    /\ LET fd == Head(events)
       IN  IF RecvOutcome(fd) = "bytes"
           THEN /\ m_item' = [fd |-> fd, id |-> Head(inbuf[Owner(fd)])]
                /\ inbuf' = [inbuf EXCEPT ![Owner(fd)] = Tail(@)]
                /\ mpc' = "e_get"
                /\ events' = events
                /\ UNCHANGED <<cstate, reg>>
           ELSE /\ events' = Tail(events)
                /\ mpc' = AfterEvent
                /\ IF RecvOutcome(fd) = "eof"
                   THEN /\ reg' = [reg EXCEPT ![Owner(fd)] = 0]
                        /\ cstate' = [cstate EXCEPT ![Owner(fd)] = "closed"]
                   ELSE UNCHANGED <<cstate, reg>>
                /\ UNCHANGED <<m_item, inbuf>>
    /\ UNCHANGED <<m_node, m_old_tail, spawned>>
    /\ UNCHANGED <<ready, nsent, workload, budget, peer, fdnum, outbuf, awaiting, hpc>>
    /\ UNCHANGED <<qvars, svars, wvars, stvars, hvars, pipevars>>

\* ---- LockFreeQueue::enqueue, one step per access to shared memory
\* LockFreeQueue::get_node: pool[pool_index.fetch_add(1) % pool.size()].
get_node == (pool_index % PoolSize) + 1

\* Node* node = get_node(); if (!node) return false;  (a pool node is never null)
E_get ==
    /\ mpc = "e_get"
    /\ m_node' = get_node
    /\ pool_index' = pool_index + 1
    /\ enqAtFull' = IF Cardinality(Outstanding) >= PoolSize /\ enqAtFull = "no"
                    THEN "called" ELSE enqAtFull
    /\ mpc' = "e_data"
    /\ UNCHANGED <<head, tail, node_data, node_next>>
    /\ UNCHANGED <<events, m_item, m_old_tail, spawned>>
    /\ UNCHANGED <<accepted, delivered, sent, sentOn, closes, joins>>
    /\ UNCHANGED <<svars, wvars, stvars, cvars, pipevars>>

\* node->data = item
E_data ==
    /\ mpc = "e_data"
    /\ node_data' = [node_data EXCEPT ![m_node] = m_item]
    /\ mpc' = "e_next"
    /\ UNCHANGED <<head, tail, pool_index, node_next>>
    /\ UNCHANGED <<events, m_item, m_node, m_old_tail, spawned>>
    /\ UNCHANGED <<svars, wvars, stvars, cvars, hvars, pipevars>>

\* node->next = nullptr
E_next ==
    /\ mpc = "e_next"
    /\ node_next' = [node_next EXCEPT ![m_node] = NULL]
    /\ mpc' = "e_xchg"
    /\ UNCHANGED <<head, tail, pool_index, node_data>>
    /\ UNCHANGED <<events, m_item, m_node, m_old_tail, spawned>>
    /\ UNCHANGED <<svars, wvars, stvars, cvars, hvars, pipevars>>

\* Node* old_tail = tail.exchange(node)
E_xchg ==
    /\ mpc = "e_xchg"
    /\ m_old_tail' = tail
    /\ tail' = m_node
    /\ mpc' = "e_link"
    /\ UNCHANGED <<head, pool_index, node_data, node_next>>
    /\ UNCHANGED <<events, m_item, m_node, spawned>>
    /\ UNCHANGED <<svars, wvars, stvars, cvars, hvars, pipevars>>

\* old_tail->next = node; return true;  (handleClient and the event are done)
E_link ==
    /\ mpc = "e_link"
    /\ node_next' = [node_next EXCEPT ![m_old_tail] = m_node]
    /\ accepted' = accepted \cup {m_item.id}
    /\ enqAtFull' = IF enqAtFull = "called" THEN "returned_true" ELSE enqAtFull
    /\ events' = Tail(events)
    /\ mpc' = AfterEvent
    /\ m_item' = NoItem
    /\ m_node' = NULL
    /\ m_old_tail' = NULL
    /\ UNCHANGED <<head, tail, pool_index, node_data, spawned>>
    /\ UNCHANGED <<delivered, sent, sentOn, closes, joins>>
    /\ UNCHANGED <<svars, wvars, stvars, cvars, pipevars>>

\* ---- HFTServer::workerThread, one step per access to shared memory. A local
\* variable that is dead (out of scope, or overwritten before its next read) is
\* reset to its initial value.
\* The text of a work item (the pair's second member).
ItemText(item) ==
    IF item.id \in 1..Len(workload) THEN workload[item.id].text ELSE <<>>

\* A worker loop that does not look at the running flag.
W_check_ignoringFlag(w) ==
    /\ wpc[w] = "w_check"
    /\ wpc' = [wpc EXCEPT ![w] = "d_head"]
    /\ UNCHANGED <<old_head, new_head, request, response>>
    /\ UNCHANGED <<qvars, svars, mvars, stvars, cvars, hvars, pipevars>>

\* while (running)
W_check(w) ==
    /\ wpc[w] = "w_check"
    /\ wpc' = [wpc EXCEPT ![w] = IF running THEN "d_head" ELSE "w_exited"]
    /\ UNCHANGED <<old_head, new_head, request, response>>
    /\ UNCHANGED <<qvars, svars, mvars, stvars, cvars, hvars, pipevars>>

\* dequeue: Node* old_head = head.load()
D_head(w) ==
    /\ wpc[w] = "d_head"
    /\ old_head' = [old_head EXCEPT ![w] = head]
    /\ wpc' = [wpc EXCEPT ![w] = "d_next"]
    /\ UNCHANGED <<new_head, request, response>>
    /\ UNCHANGED <<qvars, svars, mvars, stvars, cvars, hvars, pipevars>>

\* dequeue: Node* new_head = old_head->next.load(); if (!new_head) return false;
D_next(w) ==
    /\ wpc[w] = "d_next"
    /\ new_head' = [new_head EXCEPT ![w] = node_next[old_head[w]]]
    /\ old_head' = [old_head EXCEPT ![w] = NULL]
    /\ wpc' = [wpc EXCEPT ![w] =
                 IF node_next[old_head[w]] = NULL THEN "w_sleep" ELSE "d_data"]
    /\ UNCHANGED <<request, response>>
    /\ UNCHANGED <<qvars, svars, mvars, stvars, cvars, hvars, pipevars>>

\* What a read of node n's data may return: its value, or, when the enqueuer
\* is writing that node at the same time (node->data = item is a plain,
\* unsynchronised write), any mix of the old and the new pair.
DataRead(n) ==
    IF mpc = "e_data" /\ m_node = n
    THEN {[fd |-> f, id |-> i] : f \in {node_data[n].fd, m_item.fd},
                                 i \in {node_data[n].id, m_item.id}}
    ELSE {node_data[n]}

\* dequeue: item = new_head->data
D_data(w) ==
    /\ wpc[w] = "d_data"
    /\ \E item \in DataRead(new_head[w]) :
          request' = [request EXCEPT ![w] = item]
    /\ wpc' = [wpc EXCEPT ![w] = "d_store"]
    /\ UNCHANGED <<old_head, new_head, response>>
    /\ UNCHANGED <<qvars, svars, mvars, stvars, cvars, hvars, pipevars>>

\* dequeue: head = new_head; return true;
D_store(w) ==
    /\ wpc[w] = "d_store"
    /\ head' = new_head[w]
    /\ delivered' = Bump(delivered, request[w].id)
    /\ new_head' = [new_head EXCEPT ![w] = NULL]
    /\ wpc' = [wpc EXCEPT ![w] = "w_process"]
    /\ UNCHANGED <<tail, pool_index, node_data, node_next>>
    /\ UNCHANGED <<old_head, request, response>>
    /\ UNCHANGED <<accepted, sent, sentOn, closes, joins, enqAtFull>>
    /\ UNCHANGED <<svars, mvars, stvars, cvars, pipevars>>

\* What worker w's processRequest call that ended with out leaves behind.
Processed(w, out) ==
    /\ limiter' = out.rl
    /\ files' = out.fs
    /\ response' = [response EXCEPT ![w] = out.response]
    /\ wpc' = [wpc EXCEPT ![w] = IF out.thrown THEN "w_terminated" ELSE "w_send"]

\* std::string response = processRequest(request.second), and the latency
\* counters. An exception leaving processRequest leaves the thread function:
\* std::terminate.
W_process(w) ==
    /\ wpc[w] = "w_process"
    /\ \E out \in {processRequest(interceptors, services, ItemText(request[w]),
                                   limiter, files, now, TRUE)} :
          Processed(w, out)
    /\ UNCHANGED <<old_head, new_head, request>>
    /\ UNCHANGED <<regvars, now, obsvars, instvars, ratevars>>
    /\ UNCHANGED <<qvars, svars, mvars, stvars, cvars, hvars>>

\* The bytes of a send() on descriptor fd reach a client that reads: the
\* descriptor names an open connection whose client is a SocketClient. Its
\* unread responses are recorded up to MaxUnread of them.
Arrives(fd) ==
    /\ Owner(fd) # 0
    /\ awaiting[Owner(fd)] # NotReading
    /\ Len(outbuf[Owner(fd)]) < MaxUnread

\* send(request.first, response.c_str(), response.length(), MSG_NOSIGNAL)
W_send(w) ==
    /\ wpc[w] = "w_send"
    /\ sent' = Bump(sent, request[w].id)
    /\ sentOn' = sentOn \cup {<<request[w].id, request[w].fd>>}
    /\ request' = [request EXCEPT ![w] = NoItem]
    /\ response' = [response EXCEPT ![w] = <<>>]
    /\ wpc' = [wpc EXCEPT ![w] = "w_check"]
    /\ outbuf' = IF Arrives(request[w].fd)
                 THEN [outbuf EXCEPT ![Owner(request[w].fd)] =
                          Append(@, request[w].id)]
                 ELSE outbuf
    /\ UNCHANGED <<old_head, new_head>>
    /\ UNCHANGED <<accepted, delivered, closes, joins, enqAtFull>>
    /\ UNCHANGED <<cstate, inbuf, ready, nsent, workload, budget, peer, reg>>
    /\ UNCHANGED <<fdnum, awaiting, hpc>>
    /\ UNCHANGED <<qvars, svars, mvars, stvars, pipevars>>

\* std::this_thread::sleep_for(std::chrono::microseconds(1))
W_sleep(w) ==
    /\ wpc[w] = "w_sleep"
    /\ wpc' = [wpc EXCEPT ![w] = "w_check"]
    /\ UNCHANGED <<old_head, new_head, request, response>>
    /\ UNCHANGED <<qvars, svars, mvars, stvars, cvars, hvars, pipevars>>

\* ---- HFTServer::stop, called by a thread other than the one inside start()
\* stop() is called while start() is blocked in acceptConnections(), after
\* start() has returned or thrown, or on a server never started.
StopCallable ==
    /\ spc = "s_idle"
    /\ stopsDone < MaxStops
    /\ mpc \in LoopPcs \cup {"m_idle", "m_failed", "m_returned"}

\* running = false
Stop_flag ==
    /\ StopCallable
    /\ running' = FALSE
    /\ spc' = "s_epoll"
    /\ UNCHANGED <<serverSocket, epollFd, workerThreads, joinIdx, stopsDone>>
    /\ UNCHANGED <<qvars, mvars, wvars, cvars, hvars, pipevars>>

\* A stop() that closes epollFd without looking at it.
Stop_epoll_unguarded ==
    /\ spc = "s_epoll"
    /\ closes' = closes + 1
    /\ epollFd' = NoFd
    /\ reg' = [c \in Conns |-> 0]
    /\ spc' = "s_socket"
    /\ UNCHANGED <<running, serverSocket, workerThreads, joinIdx, stopsDone>>
    /\ UNCHANGED <<accepted, delivered, sent, sentOn, joins, enqAtFull>>
    /\ UNCHANGED <<cstate, inbuf, ready, nsent, workload, budget, peer, fdnum, outbuf, awaiting, hpc>>
    /\ UNCHANGED <<qvars, mvars, wvars, pipevars>>

\* if (epollFd != -1) { close(epollFd); epollFd = -1; }
\* Closing the epoll instance discards its interest list.
Stop_epoll ==
    /\ spc = "s_epoll"
    /\ IF epollFd # NoFd
       THEN /\ closes' = closes + 1
            /\ epollFd' = NoFd
            /\ reg' = [c \in Conns |-> 0]
       ELSE UNCHANGED <<closes, epollFd, reg>>
    /\ spc' = "s_socket"
    /\ UNCHANGED <<running, serverSocket, workerThreads, joinIdx, stopsDone>>
    /\ UNCHANGED <<accepted, delivered, sent, sentOn, joins, enqAtFull>>
    /\ UNCHANGED <<cstate, inbuf, ready, nsent, workload, budget, peer, fdnum, outbuf, awaiting, hpc>>
    /\ UNCHANGED <<qvars, mvars, wvars, pipevars>>

\* if (serverSocket != -1) { close(serverSocket); serverSocket = -1; }
Stop_socket ==
    /\ spc = "s_socket"
    /\ IF serverSocket # NoFd
       THEN /\ closes' = closes + 1
            /\ serverSocket' = NoFd
       ELSE UNCHANGED <<closes, serverSocket>>
    /\ spc' = "s_join"
    /\ joinIdx' = 1
    /\ UNCHANGED <<running, epollFd, workerThreads, stopsDone>>
    /\ UNCHANGED <<accepted, delivered, sent, sentOn, joins, enqAtFull>>
    /\ UNCHANGED <<qvars, mvars, wvars, cvars, pipevars>>

\* for (auto& thread : workerThreads) if (thread.joinable()) thread.join();
\* join returns once the thread function has returned.
Stop_join ==
    /\ spc = "s_join"
    /\ joinIdx <= Len(workerThreads)
    /\ wpc[workerThreads[joinIdx]] = "w_exited"
    /\ joins' = joins + 1
    /\ joinIdx' = joinIdx + 1
    /\ UNCHANGED <<spc, stopsDone, svars>>
    /\ UNCHANGED <<accepted, delivered, sent, sentOn, closes, enqAtFull>>
    /\ UNCHANGED <<qvars, mvars, wvars, cvars, pipevars>>

\* workerThreads.clear(); and stop() returns.
Stop_clear ==
    /\ spc = "s_join"
    /\ joinIdx > Len(workerThreads)
    /\ workerThreads' = <<>>
    /\ spc' = "s_idle"
    /\ stopsDone' = stopsDone + 1
    /\ UNCHANGED <<running, serverSocket, epollFd, joinIdx>>
    /\ UNCHANGED <<qvars, mvars, wvars, cvars, hvars, pipevars>>

\* ------------------------------------------------------------------ the shared rate limiter
\* The request-processing threads (SocketServer::handleClient threads, HFT
\* workers) that call preProcess on the one RateLimitingInterceptor of the
\* list. The fields are plain ints and preProcess takes no lock, so the
\* threads' reads and writes of currentRequests interleave.
RateThreads == 1..NumRateThreads

\* No thread is inside preProcess.
RateIdle ==
    /\ rpc = [t \in RateThreads |-> "r_idle"]
    /\ rloc = [t \in RateThreads |-> 0]
    /\ rcalls = [t \in RateThreads |-> 0]
    /\ raccepted = 0

\* now = steady_clock::now(); if (timeSinceReset.count() >= 60) { currentRequests = 0; lastReset = now; }
R_reset(t) ==
    /\ rpc[t] = "r_idle"
    /\ rcalls[t] < MaxRateCalls
    /\ rcalls' = [rcalls EXCEPT ![t] = @ + 1]
    /\ limiter' = IF ToSeconds(now - limiter.lastReset) >= RateWindowSeconds
                  THEN [limiter EXCEPT !.currentRequests = 0, !.lastReset = now]
                  ELSE limiter
    /\ rpc' = [rpc EXCEPT ![t] = "r_compare"]
    /\ UNCHANGED <<rloc, raccepted>>
    /\ UNCHANGED <<regvars, files, now, obsvars, instvars, concvars>>

\* if (currentRequests >= maxRequests) return false;
R_compare(t) ==
    /\ rpc[t] = "r_compare"
    /\ rpc' = [rpc EXCEPT ![t] = IF limiter.currentRequests >= limiter.maxRequests
                                 THEN "r_idle" ELSE "r_load"]
    /\ UNCHANGED <<rloc, rcalls, raccepted>>
    /\ UNCHANGED <<regvars, envvars, obsvars, instvars, concvars>>

\* currentRequests++ : the read
R_load(t) ==
    /\ rpc[t] = "r_load"
    /\ rloc' = [rloc EXCEPT ![t] = limiter.currentRequests]
    /\ rpc' = [rpc EXCEPT ![t] = "r_store"]
    /\ UNCHANGED <<rcalls, raccepted>>
    /\ UNCHANGED <<regvars, envvars, obsvars, instvars, concvars>>

\* currentRequests++ : the write; return true. raccepted counts the calls
\* that returned true.
R_store(t) ==
    /\ rpc[t] = "r_store"
    /\ limiter' = [limiter EXCEPT !.currentRequests = rloc[t] + 1]
    /\ raccepted' = raccepted + 1
    /\ rpc' = [rpc EXCEPT ![t] = "r_idle"]
    /\ UNCHANGED <<rloc, rcalls>>
    /\ UNCHANGED <<regvars, files, now, obsvars, instvars, concvars>>

\* ------------------------------------------------------------------ getInstance
\* The threads that call getInstance(); server objects are numbered in the
\* order of their construction, NULL is nullptr.
Callers == 1..NumCallers
Free == 0

\* A getInstance() that takes no lock.
G_lock_unlocked(t) ==
    /\ gpc[t] = "g_idle"
    /\ ncalls[t] < MaxCalls
    /\ mutex' = t
    /\ gpc' = [gpc EXCEPT ![t] = "g_check"]
    /\ ncalls' = [ncalls EXCEPT ![t] = @ + 1]
    /\ UNCHANGED <<instance, got, constructed>>
    /\ UNCHANGED <<regvars, envvars, obsvars, ratevars, concvars>>

\* std::lock_guard<std::mutex> lock(mutex): blocks while another thread holds it.
G_lock(t) ==
    /\ gpc[t] = "g_idle"
    /\ ncalls[t] < MaxCalls
    /\ mutex = Free
    /\ mutex' = t
    /\ gpc' = [gpc EXCEPT ![t] = "g_check"]
    /\ ncalls' = [ncalls EXCEPT ![t] = @ + 1]
    /\ UNCHANGED <<instance, got, constructed>>
    /\ UNCHANGED <<regvars, envvars, obsvars, ratevars, concvars>>

\* if (instance == nullptr)
G_check(t) ==
    /\ gpc[t] = "g_check"
    /\ gpc' = [gpc EXCEPT ![t] = IF instance = NULL THEN "g_new" ELSE "g_return"]
    /\ UNCHANGED <<instance, mutex, ncalls, got, constructed>>
    /\ UNCHANGED <<regvars, envvars, obsvars, ratevars, concvars>>

\* instance = new HFTServer(); (new SocketServer(); in the standard server)
G_new(t) ==
    /\ gpc[t] = "g_new"
    /\ constructed' = constructed + 1
    /\ instance' = constructed + 1
    /\ gpc' = [gpc EXCEPT ![t] = "g_return"]
    /\ UNCHANGED <<mutex, ncalls, got>>
    /\ UNCHANGED <<regvars, envvars, obsvars, ratevars, concvars>>

\* return instance; the value is read before the guard releases the mutex.
G_return(t) ==
    /\ gpc[t] = "g_return"
    /\ got' = got \cup {instance}
    /\ mutex' = IF mutex = t THEN Free ELSE mutex
    /\ gpc' = [gpc EXCEPT ![t] = "g_idle"]
    /\ UNCHANGED <<instance, ncalls, constructed>>
    /\ UNCHANGED <<regvars, envvars, obsvars, ratevars, concvars>>

\* The singleton after the entry point's one getInstance() call.
InstanceObtained ==
    /\ instance = 1 /\ mutex = Free
    /\ gpc = [t \in Callers |-> "g_idle"]
    /\ ncalls = [t \in Callers |-> 0]
    /\ got = {1} /\ constructed = 1

\* ------------------------------------------------------------------ specifications
\* The state after HFTServer's constructor, for k clients sending n requests.
InitNetWith(n, k, a) ==
    /\ head = 1 /\ tail = 1 /\ pool_index = 0
    /\ node_data = [x \in Nodes |-> NoItem]
    /\ node_next = [x \in Nodes |-> NULL]
    /\ running = FALSE /\ serverSocket = NoFd /\ epollFd = NoFd
    /\ workerThreads = <<>>
    /\ mpc = "m_idle" /\ events = <<>> /\ m_item = NoItem
    /\ m_node = NULL /\ m_old_tail = NULL /\ spawned = 0
    /\ wpc = [w \in Workers |-> "w_none"]
    /\ old_head = [w \in Workers |-> NULL]
    /\ new_head = [w \in Workers |-> NULL]
    /\ request = [w \in Workers |-> NoItem]
    /\ response = [w \in Workers |-> <<>>]
    /\ spc = "s_idle" /\ joinIdx = 1 /\ stopsDone = 0
    /\ cstate = [c \in Conns |-> IF c <= k THEN "new" ELSE "none"]
    /\ peer = [c \in Conns |-> "up"]
    /\ reg = [c \in Conns |-> 0]
    /\ fdnum = [c \in Conns |-> 0]
    /\ outbuf = [c \in Conns |-> <<>>]
    /\ awaiting = [c \in Conns |-> a]
    /\ hpc = [c \in Conns |-> "h_none"]
    /\ inbuf = [c \in Conns |-> <<>>]
    /\ ready = [c \in Conns |-> FALSE]
    /\ nsent = 0 /\ workload = <<>> /\ budget = n
    /\ accepted = {}
    /\ delivered = [i \in 0..MaxItems |-> 0]
    /\ sent = [i \in 0..MaxItems |-> 0]
    /\ sentOn = {}
    /\ closes = 0 /\ joins = 0 /\ enqAtFull = "no"

\* The state after HFTServer's constructor, for clients sending n requests.
\* The server with clients that send without reading the responses.
InitNet(n, k) == InitNetWith(n, k, NotReading)

InitServer(n) == InitNet(n, NumConns)

\* A server before start(), with the interceptors and services already
\* registered; clock at the limiter's construction, no file.
InitPipeline(kinds, ks, icpts, svcs) ==
    /\ serverKind \in kinds
    /\ interceptors = icpts /\ services = svcs
    /\ lifecycle = Registered(svcs)
    /\ nextId = Len(icpts) + 1 /\ serving = FALSE
    /\ limiter \in {[maxRequests |-> k, currentRequests |-> 0, lastReset |-> 0] : k \in ks}
    /\ files = <<>> /\ now = 0
    /\ p_req = <<>>
    /\ p_out = [called |-> FALSE, thrown |-> FALSE, response |-> <<>>, log |-> <<>>]
    /\ rc_ret = "none" /\ w_start = 0 /\ w_calls = 0
    /\ InstanceObtained
    /\ RateIdle

\* The HFT entry point's registrations: three services, the authentication
\* interceptor.
InitHftMain ==
    /\ serverKind = "hft"
    /\ interceptors = <<[kind |-> "auth", id |-> 1]>>
    /\ services = <<"echo", "calc", "file">>
    /\ lifecycle = Registered(services)
    /\ nextId = 2 /\ serving = TRUE
    /\ limiter = [maxRequests |-> 1, currentRequests |-> 0, lastReset |-> 0]
    /\ files = <<>> /\ now = 0
    /\ p_req = <<>>
    /\ p_out = [called |-> FALSE, thrown |-> FALSE, response |-> <<>>, log |-> <<>>]
    /\ rc_ret = "none" /\ w_start = 0 /\ w_calls = 0
    /\ InstanceObtained
    /\ RateIdle

ClientStep ==
    \/ \E c \in Conns : ClientConnect(c)
    \/ \E c \in Conns : ClientSend(c)

StartStep ==
    \/ \E o \in {"ok", "socket_fails", "bind_fails", "listen_fails"} : Start_open(o)
    \/ \E o \in {"ok", "create_fails", "ctl_fails"} : Start_setupEpoll(o)
    \/ Start_run
    \/ Start_spawn

MuxStep ==
    \/ M_check
    \/ M_wait
    \/ \E ctlOk \in BOOLEAN : M_accept(ctlOk)
    \/ M_handleClient
    \/ E_get
    \/ E_data
    \/ E_next
    \/ E_xchg
    \/ E_link

WorkerStep(w) ==
    \/ W_check(w)
    \/ D_head(w)
    \/ D_next(w)
    \/ D_data(w)
    \/ D_store(w)
    \/ W_process(w)
    \/ W_send(w)
    \/ W_sleep(w)

\* The steps of a stop() call that has begun.
StopProgress ==
    \/ Stop_epoll
    \/ Stop_socket
    \/ Stop_join
    \/ Stop_clear

StopStep ==
    \/ Stop_flag
    \/ StopProgress

NextServer ==
    \/ ClientStep
    \/ StartStep
    \/ MuxStep
    \/ \E w \in Workers : WorkerStep(w)
    \/ StopStep

\* The running server with its queue, for clients sending MaxItems requests.
Init == InitServer(MaxItems) /\ InitHftMain
Spec == Init /\ [][NextServer]_vars

\* MaxConns clients that connect, send ConnItems requests, and hang up or
\* reset their connections.
ClientEndStep == \E c \in Conns : \E how \in {"fin", "rst"} : ClientEnd(c, how)
NextConn ==
    \/ NextServer
    \/ ClientEndStep
InitConn == InitNet(ConnItems, MaxConns) /\ InitHftMain
SpecConn == InitConn /\ [][NextConn]_vars

\* Start-up and shutdown, for clients sending LifeItems requests.
InitLife == InitServer(LifeItems) /\ InitHftMain
SpecLife == InitLife /\ [][NextServer]_vars

\* Every thread that can take a step eventually takes one. Whether and when
\* stop() is called is left open; a stop() call that has begun goes on.
Fairness ==
    /\ WF_vars(StartStep)
    /\ WF_vars(MuxStep)
    /\ \A w \in Workers : WF_vars(WorkerStep(w))
    /\ WF_vars(StopProgress)
SpecLifeFair == SpecLife /\ Fairness

\* The request through processRequest with TRUE and FALSE for the disk's answer
\* where the request can reach writeFile.
ProcessStep ==
    \E req \in Requests :
       \E diskOk \in (IF Find(req, S_WRITE) # NPOS THEN BOOLEAN ELSE {TRUE}) :
          ProcessCall(req, diskOk)

\* Interceptor registration, then requests through processRequest, of either
\* server, with the services the entry points register.
InitPipe ==
    /\ InitServer(0)
    /\ InitPipeline({"hft", "socket"}, {1}, <<>>, <<"echo", "calc", "file">>)
NextPipe ==
    \/ \E k \in InterceptorKinds : addInterceptor(k)
    \/ ProcessStep
SpecPipe == InitPipe /\ [][NextPipe]_vars

\* Service registration in any order, then requests through processRequest,
\* with the HFT entry point's interceptor.
InitDispatch ==
    /\ InitServer(0)
    /\ InitPipeline({"hft"}, {1}, <<[kind |-> "auth", id |-> 1]>>, <<>>)
NextDispatch ==
    \/ \E k \in ServiceKinds : addService(k)
    \/ ProcessStep
SpecDispatch == InitDispatch /\ [][NextDispatch]_vars

\* A rate limiter called directly while the clock advances.
InitRate == InitServer(0) /\ InitPipeline({"hft"}, 1..MaxK, <<>>, <<>>)
NextRate ==
    \/ \E d \in {1, RateWindowSeconds * TicksPerSecond - 1} : Tick(d)
    \/ RatePreProcessCall
SpecRate == InitRate /\ [][NextRate]_vars

\* ---- calculator requests
\* The decimal text of an integer, a minus sign first when it is negative.
IntText(n) == IF n < 0 THEN <<"-">> \o NatToString(0 - n) ELSE NatToString(n)

\* The request 'TOKEN:<secret> CAL a op b' of the test script, for integers a, b.
CalcRequest(a, op, b) ==
    S_TOKEN \o ConfiguredToken \o <<" ">> \o S_CAL \o <<" ">>
        \o IntText(a) \o <<" ", op, " ">> \o IntText(b)

Operands == (0 - MaxOperand)..MaxOperand

\* Calculator requests through processRequest of the HFT entry point's server
\* (authentication interceptor; echo, calculator and file service).
InitCalc ==
    /\ InitServer(0)
    /\ InitPipeline({"hft"}, {1}, <<[kind |-> "auth", id |-> 1]>>,
                    <<"echo", "calc", "file">>)
NextCalc ==
    \E a, b \in Operands : \E op \in {"+", "-"} :
        ProcessCall(CalcRequest(a, op, b), TRUE)
SpecCalc == InitCalc /\ [][NextCalc]_vars

\* The process before any getInstance() call: no instance, nothing registered;
\* NumCallers threads then call getInstance() up to MaxCalls times each.
InitInstance ==
    /\ InitServer(0)
    /\ serverKind \in {"hft", "socket"}
    /\ interceptors = <<>> /\ services = <<>>
    /\ lifecycle = Registered(services)
    /\ nextId = 1 /\ serving = FALSE
    /\ limiter = [maxRequests |-> 1, currentRequests |-> 0, lastReset |-> 0]
    /\ files = <<>> /\ now = 0
    /\ p_req = <<>>
    /\ p_out = [called |-> FALSE, thrown |-> FALSE, response |-> <<>>, log |-> <<>>]
    /\ rc_ret = "none" /\ w_start = 0 /\ w_calls = 0
    /\ instance = NULL /\ mutex = Free
    /\ gpc = [t \in Callers |-> "g_idle"]
    /\ ncalls = [t \in Callers |-> 0]
    /\ got = {} /\ constructed = 0
    /\ RateIdle
NextInstance ==
    \E t \in Callers :
        \/ G_lock(t)
        \/ G_check(t)
        \/ G_new(t)
        \/ G_return(t)
SpecInstance == InitInstance /\ [][NextInstance]_vars

\* NumRateThreads threads calling the shared limiter's preProcess, up to
\* MaxRateCalls times each, within one window.
InitRateShared ==
    /\ InitServer(0)
    /\ InitPipeline({"socket"}, 1..MaxK, <<[kind |-> "rate", id |-> 1]>>, <<"echo", "calc", "file">>)
NextRateShared ==
    \E t \in RateThreads :
        \/ R_reset(t)
        \/ R_compare(t)
        \/ R_load(t)
        \/ R_store(t)
SpecRateShared == InitRateShared /\ [][NextRateShared]_vars

\* The standard server as its entry point configures it: the interceptors
\* registered in the order logging, authentication, rate limiting, validation.
InitReference ==
    /\ InitServer(0)
    /\ InitPipeline({"socket"}, 1..MaxK,
                    <<[kind |-> "log", id |-> 1], [kind |-> "auth", id |-> 2],
                      [kind |-> "rate", id |-> 3], [kind |-> "valid", id |-> 4]>>,
                    <<"echo", "calc", "file">>)
NextReference == ProcessStep
SpecReference == InitReference /\ [][NextReference]_vars

\* ---- one SocketClient against the low-latency server: each request is sent
\* only after the receive for the one before it has returned
InitRoundTrip == InitNetWith(RoundTrips, 1, 0) /\ InitHftMain
NextRoundTrip ==
    \/ NextServer
    \/ \E c \in Conns : ClientReceive(c)
SpecRoundTrip == InitRoundTrip /\ [][NextRoundTrip]_vars

\* ---- a client whose request is longer than the server's read buffer
InitEdge == InitNet(LongItems, 1) /\ InitHftMain
NextEdge ==
    \/ NextServer
    \/ \E c \in Conns : ClientSendLong(c)
SpecEdge == InitEdge /\ [][NextEdge]_vars /\ Fairness

\* ---- the reference configuration over more than one rate window
NextBudget ==
    \/ ProcessStep
    \/ \E d \in {RateWindowSeconds * TicksPerSecond - 1,
                 RateWindowSeconds * TicksPerSecond} : Tick(d)
SpecBudget == InitReference /\ [][NextBudget]_vars

\* ---- SocketServer: the accept loop, one thread per client, stop()
\* mpc is the position of the thread inside start(), hpc[c] the position of
\* the thread running handleClient for connection c, workerThreads the
\* connections whose threads were created, in order.
\* SocketServer::start up to the call of acceptConnections().
SS_start(outcome) ==
    /\ mpc = "m_idle"
    /\ spc = "s_idle"
    /\ stopsDone = 0
    /\ ~running
    /\ serverSocket' = IF outcome = "socket_fails" THEN NoFd ELSE ListenFd
    /\ running' = (outcome = "ok")
    /\ mpc' = IF outcome = "ok" THEN "a_check" ELSE "m_failed"
    /\ UNCHANGED <<epollFd, workerThreads>>
    /\ UNCHANGED <<events, m_item, m_node, m_old_tail, spawned>>
    /\ UNCHANGED <<qvars, wvars, stvars, cvars, hvars, pipevars>>

\* SocketServer::acceptConnections: while (running)
SS_check ==
    /\ mpc = "a_check"
    /\ mpc' = IF running THEN "a_accept" ELSE "m_returned"
    /\ UNCHANGED <<events, m_item, m_node, m_old_tail, spawned>>
    /\ UNCHANGED <<qvars, svars, wvars, stvars, cvars, hvars, pipevars>>

\* accept(serverSocket, ...) blocks until a connection is pending; on a
\* closed descriptor it returns -1 and the loop continues. An accepted
\* socket gets a thread: workerThreads.emplace_back(handleClient, fd).
SS_accept ==
    /\ mpc = "a_accept"
    /\ IF serverSocket = NoFd
       THEN UNCHANGED <<cstate, fdnum, hpc, workerThreads>>
       ELSE \E c \in Conns :
               /\ cstate[c] = "pending"
               /\ cstate' = [cstate EXCEPT ![c] = "open"]
               /\ fdnum' = [fdnum EXCEPT ![c] = LowestFree]
               /\ hpc' = [hpc EXCEPT ![c] = "h_check"]
               /\ workerThreads' = Append(workerThreads, c)
    /\ mpc' = "a_check"
    /\ UNCHANGED <<running, serverSocket, epollFd>>
    /\ UNCHANGED <<events, m_item, m_node, m_old_tail, spawned>>
    /\ UNCHANGED <<inbuf, ready, nsent, workload, budget, peer, reg, outbuf, awaiting>>
    /\ UNCHANGED <<qvars, wvars, stvars, hvars, pipevars>>

\* SocketServer::handleClient: while (running)
H_check(c) ==
    /\ hpc[c] = "h_check"
    /\ hpc' = [hpc EXCEPT ![c] = IF running THEN "h_recv" ELSE "h_close"]
    /\ UNCHANGED <<cstate, inbuf, ready, nsent, workload, budget, peer, reg, fdnum>>
    /\ UNCHANGED <<outbuf, awaiting>>
    /\ UNCHANGED <<qvars, svars, mvars, wvars, stvars, hvars, pipevars>>

\* recv(clientSocket, buffer, sizeof(buffer) - 1, 0), a blocking read: it
\* returns when bytes have arrived or the client has ended the connection,
\* and not before. With bytes the request goes through processRequest and the
\* response is sent; with bytesRead <= 0 the loop is left.
H_recv(c) ==
    /\ hpc[c] = "h_recv"
    /\ inbuf[c] # <<>> \/ peer[c] # "up"
    /\ IF inbuf[c] # <<>>
       THEN /\ ProcessBody(workload[Head(inbuf[c])].text, TRUE)
            /\ inbuf' = [inbuf EXCEPT ![c] = Tail(@)]
            /\ sent' = Bump(sent, Head(inbuf[c]))
            /\ sentOn' = sentOn \cup {<<Head(inbuf[c]), fdnum[c]>>}
            /\ hpc' = [hpc EXCEPT ![c] =
                         IF p_out'.thrown THEN "h_terminated" ELSE "h_check"]
       ELSE /\ hpc' = [hpc EXCEPT ![c] = "h_close"]
            /\ UNCHANGED <<inbuf, sent, sentOn, pipevars>>
    /\ UNCHANGED <<cstate, ready, nsent, workload, budget, peer, reg, fdnum>>
    /\ UNCHANGED <<outbuf, awaiting>>
    /\ UNCHANGED <<accepted, delivered, closes, joins, enqAtFull>>
    /\ UNCHANGED <<qvars, svars, mvars, wvars, stvars>>

\* close(clientSocket); the thread function returns.
H_close(c) ==
    /\ hpc[c] = "h_close"
    /\ cstate' = [cstate EXCEPT ![c] = "closed"]
    /\ hpc' = [hpc EXCEPT ![c] = "h_done"]
    /\ UNCHANGED <<inbuf, ready, nsent, workload, budget, peer, reg, fdnum>>
    /\ UNCHANGED <<outbuf, awaiting>>
    /\ UNCHANGED <<qvars, svars, mvars, wvars, stvars, hvars, pipevars>>

\* SocketServer::stop: if (!running) return; running = false;
SS_stop_flag ==
    /\ spc = "s_idle"
    /\ stopsDone < MaxStops
    /\ mpc \in AcceptPcs \cup {"m_idle", "m_failed", "m_returned"}
    /\ IF running
       THEN /\ running' = FALSE
            /\ spc' = "s_socket"
            /\ stopsDone' = stopsDone
       ELSE /\ stopsDone' = stopsDone + 1
            /\ UNCHANGED <<running, spc>>
    /\ UNCHANGED <<serverSocket, epollFd, workerThreads, joinIdx>>
    /\ UNCHANGED <<qvars, mvars, wvars, cvars, hvars, pipevars>>

\* SocketServer::stop: if (thread.joinable()) thread.join(), for the next
\* thread of workerThreads; join() returns once that thread's handleClient
\* has returned.
SS_stop_join ==
    /\ spc = "s_join"
    /\ joinIdx <= Len(workerThreads)
    /\ hpc[workerThreads[joinIdx]] = "h_done"
    /\ joins' = joins + 1
    /\ joinIdx' = joinIdx + 1
    /\ UNCHANGED <<spc, stopsDone, svars>>
    /\ UNCHANGED <<accepted, delivered, sent, sentOn, closes, enqAtFull>>
    /\ UNCHANGED <<qvars, mvars, wvars, cvars, pipevars>>

\* The standard server of client.cpp's main with clients that connect, may
\* send one request, may hang up and may stay silent. The server's threads
\* are scheduled fairly; nothing is assumed of the clients.
InitSocket ==
    /\ InitNet(ConnItems, MaxConns)
    /\ InitPipeline({"socket"}, {MaxK},
                    <<[kind |-> "log", id |-> 1], [kind |-> "auth", id |-> 2],
                      [kind |-> "rate", id |-> 3], [kind |-> "valid", id |-> 4]>>,
                    <<"echo", "calc", "file">>)
AcceptLoopStep == SS_check \/ SS_accept
HandlerStep(c) == H_check(c) \/ H_recv(c) \/ H_close(c)
SocketStopProgress == Stop_socket \/ SS_stop_join \/ Stop_clear
NextSocket ==
    \/ ClientStep
    \/ ClientEndStep
    \/ \E outcome \in {"ok", "socket_fails", "bind_fails"} : SS_start(outcome)
    \/ AcceptLoopStep
    \/ \E c \in Conns : HandlerStep(c)
    \/ SS_stop_flag
    \/ SocketStopProgress
FairSocket ==
    /\ WF_vars(AcceptLoopStep)
    /\ \A c \in Conns : WF_vars(HandlerStep(c))
    /\ WF_vars(SocketStopProgress)
SpecSocket == InitSocket /\ [][NextSocket]_vars /\ FairSocket

\* ---- the queue on its own
\* One producer thread and one consumer thread use a freshly constructed
\* LockFreeQueue directly: the producer enqueues the items 1, 2, ... (mpc is
\* its position inside enqueue), the consumer calls dequeue again and again
\* (wpc[1] is its position: "w_sleep" after a dequeue that returned false,
\* "w_process" after one that returned true with request[1]).
QueueProduce ==
    /\ mpc \in {"m_idle", "m_check"}
    /\ nsent < budget
    /\ nsent' = nsent + 1
    /\ m_item' = [fd |-> 1, id |-> nsent + 1]
    /\ events' = <<1>>
    /\ mpc' = "e_get"
    /\ UNCHANGED <<m_node, m_old_tail, spawned>>
    /\ UNCHANGED <<cstate, inbuf, ready, workload, budget, peer, reg, fdnum, outbuf, awaiting, hpc>>
    /\ UNCHANGED <<qvars, svars, wvars, stvars, hvars, pipevars>>

QueueConsume ==
    /\ wpc[1] \in {"w_none", "w_sleep", "w_process"}
    /\ wpc' = [wpc EXCEPT ![1] = "d_head"]
    /\ request' = [request EXCEPT ![1] = NoItem]
    /\ UNCHANGED <<old_head, new_head, response>>
    /\ UNCHANGED <<qvars, svars, mvars, stvars, cvars, hvars, pipevars>>

\* Fewer items than the pool has nodes are ever enqueued.
QueueItems == PoolSize - 1
InitQueue == InitServer(QueueItems) /\ InitHftMain
NextQueue ==
    \/ QueueProduce
    \/ E_get
    \/ E_data
    \/ E_next
    \/ E_xchg
    \/ E_link
    \/ QueueConsume
    \/ D_head(1)
    \/ D_next(1)
    \/ D_data(1)
    \/ D_store(1)
SpecQueue == InitQueue /\ [][NextQueue]_vars

\* ------------------------------------------------------------------ properties
\* C1: no enqueued work item is returned by more than one successful dequeue:
\* each item is handed to at most one worker, at most once.
C1_AtMostOneDequeue ==
    \A i \in Ids : delivered[i] <= 1

\* C2: while the server runs and fewer items than the queue's capacity are
\* outstanding, every item enqueue accepted is eventually returned by some
\* worker's dequeue and its response sent.
C2_AcceptedEventuallyDequeued ==
    \A i \in Ids :
        (i \in accepted) ~>
            \/ delivered[i] >= 1 /\ sent[i] >= 1
            \/ ~running
            \/ Cardinality(Outstanding) >= PoolSize

\* C3: for each request read and enqueued the workers issue exactly one send,
\* on the connection the request came from: never two or more, and never zero
\* once the running server has nothing left to dequeue and every worker is
\* back at the top of its loop.
QueueDrained ==
    /\ mpc \in {"m_check", "m_wait"}
    /\ node_next[head] = NULL
    /\ \A w \in Workers : wpc[w] \in {"w_check", "w_sleep"}
    /\ \A w \in Workers : old_head[w] = NULL /\ new_head[w] = NULL

C3_ExactlyOneSend ==
    /\ \A i \in Ids : sent[i] <= 1
    /\ \A so \in sentOn :
          so[1] \in 1..Len(workload) /\ so[2] = workload[so[1]].conn
    /\ (running /\ QueueDrained) => \A i \in accepted : sent[i] = 1

\* C4: enqueue called on a queue holding its capacity of undelivered items
\* returns false; it never returns true there.
C4_FullQueueRejects ==
    enqAtFull # "returned_true"

\* ---- the pipeline's calls, as the log of the last processRequest records them
PreCalls == SelectSeq(p_out.log, LAMBDA c : c.op = "pre")
ServiceCalls == SelectSeq(p_out.log, LAMBDA c : c.op = "svc")
\* Some preProcess of the last processRequest returned false.
Rejected == \E i \in 1..Len(PreCalls) : ~PreCalls[i].ok

\* C5: when some interceptor's preProcess returns false, no interceptor later
\* in the list has its preProcess called, no service (and nothing else) is
\* called, and processRequest returns 'ERROR: Request rejected by interceptor'.
\* The calls made are those of the list's interceptors, in the list's order.
C5_RejectionStopsPipeline ==
    p_out.called =>
        /\ \A i \in 1..Len(PreCalls) :
              /\ i <= Len(interceptors)
              /\ PreCalls[i].kind = interceptors[i].kind
              /\ PreCalls[i].id = interceptors[i].id
        /\ \A i \in 1..Len(p_out.log) :
              (p_out.log[i].op = "pre" /\ ~p_out.log[i].ok) =>
                  /\ i = Len(p_out.log)
                  /\ \A j \in 1..i : p_out.log[j].op = "pre"
                  /\ ~p_out.thrown
                  /\ p_out.response = ERR_REJECTED

\* A rejection by an interceptor that is not the last of the list.
C5_Witness ==
    /\ p_out.called
    /\ Rejected
    /\ Len(PreCalls) < Len(interceptors)
    /\ p_out.response = ERR_REJECTED

\* C6: when no interceptor rejects, the services are called in registration
\* order with the request; the one that answers with a non-empty result ends
\* the calls, its result is the response, and when every service returned
\* empty the response is 'ERROR: No service available to handle request'.
\* (A call a service leaves by an exception ends processRequest with no
\* response.)
C6_DispatchInRegistrationOrder ==
    (p_out.called /\ ~Rejected) =>
        /\ Len(ServiceCalls) <= Len(services)
        /\ \A j \in 1..Len(ServiceCalls) :
              /\ ServiceCalls[j].kind = services[j]
              /\ ServiceCalls[j].id = j
              /\ ServiceCalls[j].ok <=> ServiceCalls[j].val # <<>>
              /\ j < Len(ServiceCalls) => ~ServiceCalls[j].ok
        /\ ~p_out.thrown =>
              IF ServiceCalls # <<>> /\ ServiceCalls[Len(ServiceCalls)].ok
              THEN p_out.response = ServiceCalls[Len(ServiceCalls)].val
              ELSE /\ Len(ServiceCalls) = Len(services)
                   /\ p_out.response = ERR_NO_SERVICE

\* The second of three services answered: the first was called and returned
\* empty, the third was not called.
C6_Witness ==
    /\ p_out.called /\ ~Rejected /\ ~p_out.thrown
    /\ Len(services) = 3
    /\ Len(ServiceCalls) = 2
    /\ p_out.response = ServiceCalls[2].val

\* The request's TOKEN:<token> field is absent or is not the configured secret.
BadToken(req) ==
    \/ TokenMatchFrom(req, 0) = NPOS
    \/ MatchedToken(req, TokenMatchFrom(req, 0)) # ConfiguredToken
AuthRegistered == \E i \in 1..Len(interceptors) : interceptors[i].kind = "auth"
AuthCalls == SelectSeq(p_out.log, LAMBDA c : c.op = "pre" /\ c.kind = "auth")

C8_RateWindow ==
    rc_ret # "none" =>
        /\ rc_ret = "accept" <=> w_calls <= limiter.maxRequests
        /\ limiter.lastReset = w_start
        /\ limiter.currentRequests = Min(w_calls, limiter.maxRequests)

\* The first call of a later window, made exactly 60 seconds after a window
\* that had been used up, is accepted.
C8_Witness ==
    /\ rc_ret = "accept"
    /\ w_calls = 1
    /\ w_start = RateWindowSeconds * TicksPerSecond
    /\ now = w_start
    /\ limiter.currentRequests = 1

\* ---- start-up and shutdown
\* Every worker thread that was started has left workerThread().
WorkersExited == \A w \in Workers : wpc[w] \in {"w_none", "w_exited"}
\* The thread that called start() is not in it: start() has returned or
\* thrown, or was never called.
StartLeft == mpc \in {"m_idle", "m_failed", "m_returned"}

\* C9: once a stop() call (from the thread that is not inside start()) has
\* returned, the running flag is clear, the listening socket and the epoll
\* descriptor are closed, each once, and every worker started has been joined
\* and has left its loop; from then on a stop() call closes no descriptor,
\* joins no thread and leaves the server's state as it is. The same holds of
\* stop() on a server never started.
C9_StopIdempotent ==
    /\ [](stopsDone >= 1 =>
            /\ ~running
            /\ serverSocket = NoFd /\ epollFd = NoFd
            /\ workerThreads = <<>>
            /\ WorkersExited
            /\ joins = spawned
            /\ closes <= 2)
    /\ [][(stopsDone >= 1 \/ (mpc = "m_idle" /\ mpc' = "m_idle")) =>
            /\ svars' = svars
            /\ closes' = closes
            /\ joins' = joins]_vars

\* A second stop() has returned on a server that had been started, with all
\* its workers, and stopped; start() has returned.
C9_Witness ==
    /\ stopsDone = 2
    /\ spawned = NumWorkers
    /\ closes = 2
    /\ joins = NumWorkers
    /\ mpc = "m_returned"

\* C10: whenever stop() has been called, it returns, and by then or later
\* every worker has left its loop and the multiplexer loop has been left.
C10_ShutdownCompletes ==
    \A n \in 0..(MaxStops - 1) :
        (spc # "s_idle" /\ stopsDone = n) ~>
            (stopsDone > n /\ WorkersExited /\ StartLeft)

\* stop() was called while a worker was between dequeue and send, and
\* everything has come to rest.
C10_Witness ==
    /\ stopsDone >= 1 /\ spc = "s_idle"
    /\ spawned = NumWorkers
    /\ WorkersExited
    /\ mpc = "m_returned"
    /\ \E i \in Ids : sent[i] >= 1

\* ---- the multiplexer after stop()
\* stop() has stored false in the running flag.
StopFlagged == ~running /\ (spc # "s_idle" \/ stopsDone >= 1)

\* C11: once stop() has set the running flag to false, the multiplexer accepts
\* no further connection and begins the enqueue of no further work item, not
\* even for the readiness events the epoll_wait in progress had returned.
C11_NoWorkAfterStop ==
    [][StopFlagged =>
          /\ \A c \in Conns : cstate'[c] # cstate[c] => cstate[c] = "new"
          /\ ~(mpc = "m_event" /\ mpc' = "e_get")]_vars

\* C12: whenever an addInterceptor call has returned, the interceptor list is
\* in ascending priority order, interceptors of equal priority in the order of
\* their registration.
C12_ListSortedAtRegistration ==
    \A i, j \in 1..Len(interceptors) :
        i < j =>
            \/ getPriority(interceptors[i].kind) < getPriority(interceptors[j].kind)
            \/ /\ getPriority(interceptors[i].kind) = getPriority(interceptors[j].kind)
               /\ interceptors[i].id < interceptors[j].id

\* ---- the post-pass
PostCalls == SelectSeq(p_out.log, LAMBDA c : c.op = "post")

\* C13: when a preProcess rejects the request, postProcess is called, once
\* each, on exactly the interceptors whose preProcess had been called for the
\* request, before the rejection response is returned.
C13_PostPassOnRejection ==
    (p_out.called /\ Rejected) =>
        /\ Len(PostCalls) = Len(PreCalls)
        /\ {PostCalls[i].id : i \in 1..Len(PostCalls)}
              = {PreCalls[i].id : i \in 1..Len(PreCalls)}
        /\ p_out.response = ERR_REJECTED

\* The response the service loop of the last processRequest ended with.
DispatchResponse ==
    IF ServiceCalls # <<>> /\ ServiceCalls[Len(ServiceCalls)].ok
    THEN ServiceCalls[Len(ServiceCalls)].val
    ELSE ERR_NO_SERVICE

Sending(w, c) == wpc[w] = "w_send" /\ request[w].fd = c

\* C15: at no time are two worker threads in a send() to the same
\* connection's socket.
C15_ExclusiveSend ==
    \A c \in Conns : \A w1, w2 \in Workers :
        (Sending(w1, c) /\ Sending(w2, c)) => w1 = w2

\* C16: the responses of one connection are sent in the order its requests
\* were read and enqueued: when the response of request b is sent, the response
\* of every request a of the same connection enqueued before b has been sent.
\* Stated for requests each handed to a worker by exactly one dequeue. (Requests
\* are numbered in the order the connection's client sent them, which is the
\* order handleClient reads and enqueues them.)
C16_ResponsesInRequestOrder ==
    [][\A a, b \in accepted :
          (/\ a < b
           /\ workload[a].conn = workload[b].conn
           /\ delivered[a] = 1 /\ delivered[b] = 1
           /\ sent'[b] # sent[b]) => sent[a] >= 1]_vars

\* ---- the handlers' answers
\* C17: processRequest returns a response for every request: no exception
\* leaves a service or the pipeline, whatever the request's text.
C17_NoExceptionLeaves ==
    p_out.called => ~p_out.thrown

\* The service of the given class answered the last processRequest.
AnsweredBy(kind) ==
    /\ p_out.called /\ ~p_out.thrown
    /\ ServiceCalls # <<>>
    /\ ServiceCalls[Len(ServiceCalls)].ok
    /\ ServiceCalls[Len(ServiceCalls)].kind = kind

\* The text of the last request from position pos on.
RequestFrom(pos) == SubSeq(p_req, pos + 1, Len(p_req))

\* The file service answered a READ of a file that does not exist.
FailedRead ==
    /\ AnsweredBy("file")
    /\ Find(p_req, S_READ) # NPOS
    /\ ~FileExists(files, RequestFrom(Find(p_req, S_READ) + 5))

\* The calculator answered a CAL whose expression begins with something that
\* is no number.
MalformedCal ==
    /\ AnsweredBy("calc")
    /\ LET expression == RequestFrom(Find(p_req, S_CAL) + 4)
           p == SkipWs(expression, 0)
       IN  /\ p < Len(expression)
           /\ ~IsDigit(expression[p + 1])
           /\ expression[p + 1] \notin {"+", "-", "."}

\* The file service answered a WRITE and the named file does not hold the
\* content given: the command had no content part, or the file was not written.
FailedWrite ==
    /\ AnsweredBy("file")
    /\ Find(p_req, S_READ) = NPOS
    /\ Find(p_req, S_WRITE) # NPOS
    /\ LET writePos == Find(p_req, S_WRITE)
           spacePos == FindFrom(p_req, <<" ">>, writePos + 6)
       IN  \/ spacePos = NPOS
           \/ /\ spacePos # NPOS
              /\ LET filename == SubstrN(p_req, writePos + 6, spacePos - (writePos + 6))
                 IN  ~(FileExists(files, filename)
                       /\ files[filename] = RequestFrom(spacePos + 1))

\* C18: every failure of a handler (a READ of a file that cannot be opened, a
\* CAL with a malformed expression, a WRITE that fails or has no content)
\* yields a response that begins with 'ERROR: ' and not with a success prefix.
C18_FailuresAreErrors ==
    (FailedRead \/ MalformedCal \/ FailedWrite) =>
        /\ MatchAt(p_out.response, S_ERROR_PREFIX, 0)
        /\ ~MatchAt(p_out.response, S_FILE_CONTENT_PREFIX, 0)
        /\ ~MatchAt(p_out.response, S_RESULT_PREFIX, 0)
        /\ ~MatchAt(p_out.response, <<"S","U","C","C","E","S","S",":">>, 0)

\* ---- the echo and file laws
\* 'TOKEN:<secret> ECHO ', the beginning of an authenticated echo request.
EchoRequestPrefix == S_TOKEN \o ConfiguredToken \o <<" ">> \o S_ECHO \o <<" ">>

\* The last request was 'TOKEN:<secret> ECHO x' with a non-empty text x.
IsEchoRequest ==
    /\ p_out.called
    /\ MatchAt(p_req, EchoRequestPrefix, 0)
    /\ Len(p_req) > Len(EchoRequestPrefix)

WriteRequestPrefix == S_TOKEN \o ConfiguredToken \o <<" ">> \o S_WRITE \o <<" ">>
ReadRequestPrefix == S_TOKEN \o ConfiguredToken \o <<" ">> \o S_READ \o <<" ">>

\* The position of the space that ends the file name of a WRITE request.
WriteNameEnd == FindFrom(p_req, <<" ">>, Len(WriteRequestPrefix))

\* The last request was 'TOKEN:<secret> WRITE f c', and no interceptor
\* rejected it.
IsWriteRequest ==
    /\ p_out.called /\ ~Rejected
    /\ MatchAt(p_req, WriteRequestPrefix, 0)
    /\ WriteNameEnd # NPOS
    /\ WriteNameEnd > Len(WriteRequestPrefix)

\* The last request was 'TOKEN:<secret> READ f', and no interceptor rejected it.
IsReadRequest ==
    /\ p_out.called /\ ~Rejected
    /\ MatchAt(p_req, ReadRequestPrefix, 0)
    /\ Len(p_req) > Len(ReadRequestPrefix)

\* C20: for every file name f and content c, an authenticated 'WRITE f c' is
\* dispatched to the file service and, unless the disk refuses the write, leaves
\* file f holding exactly c; an authenticated 'READ f' of an existing file is
\* dispatched to the file service and returns 'FILE_CONTENT: ' followed by
\* exactly the content of f. (A WRITE followed by a READ of the same name
\* therefore returns the content written.)
C20_WriteReadRoundTrip ==
    /\ (IsWriteRequest /\ p_out.response # S_WRITE_FAILED) =>
          LET f == SubstrN(p_req, Len(WriteRequestPrefix),
                           WriteNameEnd - Len(WriteRequestPrefix))
              c == RequestFrom(WriteNameEnd + 1)
          IN  /\ AnsweredBy("file")
              /\ p_out.response = S_WRITE_OK
              /\ FileExists(files, f)
              /\ files[f] = c
    /\ (IsReadRequest /\ FileExists(files, RequestFrom(Len(ReadRequestPrefix)))) =>
          /\ AnsweredBy("file")
          /\ p_out.response = S_FILE_CONTENT_PREFIX
                                 \o files[RequestFrom(Len(ReadRequestPrefix))]

\* ---- the calculator
\* C21: for integers a and b, 'CAL a + b' returns 'RESULT: ' with the sum a + b
\* and 'CAL a - b' returns 'RESULT: ' with the difference a - b.
C21_CalculatorAddsAndSubtracts ==
    \A a, b \in Operands :
        /\ (p_out.called /\ p_req = CalcRequest(a, "+", b)) =>
              \E neg \in BOOLEAN :
                 p_out.response = S_RESULT_PREFIX
                     \o to_string(neg, IF a + b < 0 THEN 0 - (a + b) ELSE a + b)
        /\ (p_out.called /\ p_req = CalcRequest(a, "-", b)) =>
              \E neg \in BOOLEAN :
                 p_out.response = S_RESULT_PREFIX
                     \o to_string(neg, IF a - b < 0 THEN b - a ELSE a - b)

\* ---- validation
\* The command of the last request: the word after the TOKEN:<token> field
\* (the first word of a request that does not begin with that field).
CommandStart ==
    IF ~MatchAt(p_req, S_TOKEN, 0) THEN 0
    ELSE IF Find(p_req, <<" ">>) = NPOS THEN Len(p_req)
    ELSE Find(p_req, <<" ">>) + 1
CommandEnd ==
    IF FindFrom(p_req, <<" ">>, CommandStart) = NPOS THEN Len(p_req)
    ELSE FindFrom(p_req, <<" ">>, CommandStart)
Command == SubSeq(p_req, CommandStart + 1, CommandEnd)

\* The last request is one the validation has to reject.
Invalid ==
    \/ p_req = <<>>
    \/ Len(p_req) > MaxRequestLength
    \/ Command \notin {S_ECHO, S_CAL, S_READ, S_WRITE}

ValidationCalls == SelectSeq(p_out.log, LAMBDA c : c.op = "pre" /\ c.kind = "valid")

\* C22: ValidationInterceptor::preProcess returns false for every request that
\* is empty, longer than 1000 characters, or whose command is not one of ECHO,
\* CAL, READ, WRITE; and an authenticated request with an unrecognised command
\* ends in a response that begins with 'ERROR:', no service having answered.
C22_ValidationRejects ==
    p_out.called =>
        /\ (Invalid /\ ValidationCalls # <<>>) => ~ValidationCalls[1].ok
        /\ (~BadToken(p_req) /\ Command \notin {S_ECHO, S_CAL, S_READ, S_WRITE}) =>
              /\ ~p_out.thrown
              /\ MatchAt(p_out.response, <<"E","R","R","O","R",":">>, 0)
              /\ \A j \in 1..Len(ServiceCalls) : ~ServiceCalls[j].ok

\* ---- overload
\* An enqueue has been called on a queue holding its capacity of undelivered
\* items.
Overloaded == enqAtFull # "no"

\* C23: when requests have been enqueued faster than the workers drained them,
\* up to an enqueue on a queue at capacity, some request is shed: once the
\* backlog has drained (nothing left to read or dequeue, every worker idle)
\* some request has received no response. (The claim's other half, that a
\* request accepted after the backlog has drained is answered, is a liveness
\* property of the running server.)
C23_OverloadSheds ==
    (running /\ Overloaded /\ QueueDrained /\ \A c \in Conns : inbuf[c] = <<>>) =>
        \E i \in 1..nsent : sent[i] = 0

\* ---- C24
\* start() has thrown: the thread that called it is out of start() for good.
StartThrew == mpc = "m_failed"

\* C24: when socket creation, bind or listen fails, start(port) throws and
\* start-up is aborted: in every state after the throw the running flag is
\* false, no worker thread has been started, the accept loop has accepted
\* nothing, and the thread never gets into the accept loop afterwards.
C24_FailedStartAborts ==
    /\ [](StartThrew =>
            /\ ~running
            /\ spawned = 0 /\ workerThreads = <<>>
            /\ \A w \in Workers : wpc[w] = "w_none"
            /\ \A c \in Conns : cstate[c] \notin {"open", "closed"}
            /\ accepted = {})
    /\ [][StartThrew => StartThrew']_vars

\* socket() failed (no descriptor, and none was closed), start() threw, and
\* a stop() call has run to its end since.
C24_Witness ==
    /\ StartThrew
    /\ serverSocket = NoFd /\ epollFd = NoFd /\ closes = 0
    /\ stopsDone >= 1

\* ---- C25
\* The worker threads that exist: started and not yet returned.
LiveWorkers == {w \in Workers : wpc[w] \notin {"w_none", "w_exited"}}

\* C25: while the server is running exactly HFT_THREAD_POOL_SIZE worker
\* threads exist, all of them held in workerThreads by start(); once a stop()
\* call has returned, no worker thread is left running or unjoined.
C25_FixedPool ==
    /\ running =>
          /\ Cardinality(LiveWorkers) = NumWorkers
          /\ Len(workerThreads) = NumWorkers
    /\ (stopsDone >= 1 /\ spc = "s_idle") =>
          /\ LiveWorkers = {}
          /\ workerThreads = <<>>

\* ---- C26
\* C26: getInstance() returns the same single object on every call, also
\* when several threads are inside it at once, and at most one server object
\* is ever constructed.
C26_SingleInstance ==
    /\ constructed <= 1
    /\ Cardinality(got) <= 1
    /\ NULL \notin got
    /\ Cardinality({t \in Callers : gpc[t] # "g_idle"}) <= 1

\* Every thread has made all its calls and each call got the one object,
\* constructed by the first of them.
C26_Witness ==
    /\ \A t \in Callers : ncalls[t] = MaxCalls /\ gpc[t] = "g_idle"
    /\ got = {1} /\ instance = 1 /\ constructed = 1

\* ---- C27
\* The multiplexer thread takes a step of handling the event at the head of
\* its list.
EventHandled == mpc = "m_event" /\ (events' # events \/ mpc' # mpc)

\* C27: when the read on a registered connection returns 0 bytes or fails
\* with an error other than would-block, handling the event removes the
\* registration and closes the socket; a would-block read leaves the
\* connection registered and open.
C27_ReadEndsConnection ==
    [][\A c \in Conns :
          (EventHandled /\ Head(events) = fdnum[c] /\ cstate[c] = "open") =>
              /\ RecvOutcome(fdnum[c]) \in {"eof", "error"} =>
                     cstate'[c] = "closed"
              /\ RecvOutcome(fdnum[c]) = "would_block" => cstate'[c] = "open"]_vars

\* ---- C28
\* C28: handling a readiness notification for the listening socket accepts
\* every pending connection: when the multiplexer goes on to the next event
\* no connection is left in the backlog.
C28_AcceptsAllPending ==
    [][(EventHandled /\ Head(events) = serverSocket) =>
          \A c \in Conns : cstate'[c] # "pending"]_vars

\* ---- C29
\* The connections the accept step of this transition took from the backlog.
AcceptedNow == {c \in Conns : cstate[c] = "pending" /\ cstate'[c] # "pending"}

\* C29: every socket accept() returns is, at the end of that accept step,
\* either open with one entry in the epoll interest list or closed, and
\* closed whenever the registration could not succeed; a connection never has
\* more than one entry, an entry is only ever added by the accept step that
\* returned the socket, and only an open connection has one.
C29_RegisteredOrClosed ==
    /\ [](\A c \in Conns : reg[c] <= 1 /\ (reg[c] = 1 => cstate[c] = "open"))
    /\ [][(EventHandled /\ Head(events) = serverSocket) =>
             \A c \in AcceptedNow :
                 /\ \/ cstate'[c] = "open" /\ reg'[c] = 1
                    \/ cstate'[c] = "closed" /\ reg'[c] = 0
                 /\ epollFd = NoFd => cstate'[c] = "closed"]_vars
    /\ [][\A c \in Conns : reg'[c] > reg[c] => c \in AcceptedNow]_vars

\* Both outcomes have happened: one accepted connection is registered and
\* open, the other could not be registered and is closed, neither having
\* ended on the client's side.
C29_Witness ==
    \E c, d \in Conns :
        /\ cstate[c] = "open" /\ reg[c] = 1
        /\ cstate[d] = "closed" /\ reg[d] = 0 /\ peer[d] = "up"

\* ---- C30
\* C30: once the server is serving, the handler list and the middleware list
\* are not written: every step that processes a request, the first one
\* included, leaves both lists as they were.
C30_ListsReadOnly ==
    [][serving' => (interceptors' = interceptors /\ services' = services)]_vars

\* ---- C31
\* C31: when several threads call the shared limiter's preProcess
\* concurrently, no more than maxRequests calls are accepted within one
\* window and currentRequests never exceeds maxRequests.
C31_SharedLimiterBounded ==
    /\ raccepted <= limiter.maxRequests
    /\ limiter.currentRequests <= limiter.maxRequests

\* ---- C32
\* The interceptor classes in the order their preProcess was called.
PreKinds == [i \in 1..Len(PreCalls) |-> PreCalls[i].kind]

RECURSIVE DeliveredUpTo(_)
DeliveredUpTo(n) == IF n = 0 THEN 0 ELSE delivered[n] + DeliveredUpTo(n - 1)

\* C33: with one producer, one consumer and fewer items than the pool size,
\* the queue is a FIFO queue from its first enqueue on: no item is returned
\* twice, the k-th dequeue that returns true returns the k-th item enqueued,
\* and a dequeue call made when every enqueued item has been returned, with
\* no enqueue in progress, returns false.
C33_QueueIsFifo ==
    /\ \A i \in Ids : delivered[i] <= 1
    /\ wpc[1] = "w_process" => request[1].id = DeliveredUpTo(MaxItems)
    /\ [][(wpc[1] = "d_head" /\ wpc'[1] = "d_next"
            /\ mpc \in {"m_idle", "m_check"} /\ Outstanding = {})
           => node_next[head] = NULL]_vars

\* ---- C34
\* Worker w completes its send() in this step.
SendStep(w) == wpc[w] = "w_send" /\ wpc'[w] # "w_send"

\* C34: a worker sends a response only on a connection the multiplexer has
\* not closed, and the descriptor it sends on names the connection the
\* request came from: a response never reaches a connection that was
\* accepted later under the same descriptor number.
C34_NoSendAfterClose ==
    [][\A w \in Workers :
          (SendStep(w) /\ request[w].id \in DOMAIN workload) =>
              Owner(request[w].fd) = workload[request[w].id].conn]_vars

\* ---- C35
\* What the recv() of connection c's client returns in this step.
Received(c) == SubSeq(outbuf[c], 1, Len(outbuf[c]) - Len(outbuf'[c]))

\* C35: with one request outstanding per connection, the receive that follows
\* the N-th request returns the server's response to that request and nothing
\* else.
C35_ResponseMatchesRequest ==
    [][\A c \in Conns :
          (awaiting[c] > 0 /\ awaiting'[c] = 0) =>
              Received(c) = <<awaiting[c]>>]_vars

\* ---- C36
\* stop() returns in this step.
StopReturns == spc = "s_join" /\ spc' = "s_idle"

\* C36: when stop() returns, no connection the server accepted is still open
\* and none has an entry in the epoll interest list.
C36_StopClosesClients ==
    [][StopReturns =>
          \A c \in Conns : cstate'[c] # "open" /\ reg'[c] = 0]_vars

\* ---- C37
\* C37: while the server runs, bytes waiting unread on an open connection are
\* eventually read, whether or not the client sends anything more.
C37_UnreadDataPickedUp ==
    \A c \in Conns :
        (cstate[c] = "open" /\ inbuf[c] # <<>>) ~>
            (inbuf[c] = <<>> \/ ~running \/ cstate[c] # "open")

\* ---- C38
\* C38: once SocketServer::stop() has cleared the running flag it returns,
\* with the accept loop left and every per-client thread out of handleClient
\* and joined, whatever the clients do.
C38_StopTerminates ==
    (spc = "s_socket") ~>
        /\ spc = "s_idle"
        /\ mpc = "m_returned"
        /\ \A c \in Conns : hpc[c] \in {"h_none", "h_done"}

\* ---- C39
\* The preProcess calls of the processRequest made in this step, and the
\* class whose preProcess rejected the request ("none" when none did).
PreCallsNext == SelectSeq(p_out'.log, LAMBDA c : c.op = "pre")
RejectedByNext ==
    IF PreCallsNext # <<>> /\ ~PreCallsNext[Len(PreCallsNext)].ok
    THEN PreCallsNext[Len(PreCallsNext)].kind
    ELSE "none"

\* C39: in the reference configuration a request that authentication rejects
\* leaves the rate limiter's counter as it was, and a request the rate
\* limiter rejects does not raise the counter.
C39_RejectedCostsNothing ==
    [][/\ RejectedByNext = "auth" =>
              limiter'.currentRequests = limiter.currentRequests
       /\ RejectedByNext = "rate" =>
              limiter'.currentRequests <= limiter.currentRequests]_vars

\* The last request was rejected by authentication, the only preProcess
\* called for it, on a server whose rate limiter has its whole budget used by
\* earlier requests.
C39_Witness ==
    /\ p_out.called
    /\ Rejected
    /\ PreKinds = <<"auth">>
    /\ limiter.currentRequests = limiter.maxRequests

\* ---- C40
\* C40: every registered handler has had initialize() called exactly once,
\* and when stop() returns every registered handler has had cleanup() called
\* exactly once.
C40_ServiceLifecycle ==
    /\ [](\A k \in Range(services) : lifecycle[k].initialize = 1)
    /\ [][StopReturns =>
             \A k \in Range(services') : lifecycle'[k].cleanup = 1]_vars

====
